---- MODULE Spec2Model ----
(***************************************************************************)
(* Model of the resilient aggregation pipeline of generate_report.py:      *)
(*   - retry_with_backoff             (the retry wrapper, lines 38-92)     *)
(*   - get_projects / get_project_statistics  (the fetchers, 334-394)      *)
(*   - aggregate_monthly_data         (the reduction, 420-603)             *)
(* Python dicts are records whose DOMAIN holds the keys that are present;  *)
(* Python lists are sequences; a str is a sequence of one-character        *)
(* strings wherever the code looks inside it.                              *)
(***************************************************************************)
EXTENDS Integers, Sequences, FiniteSets, TLC

VARIABLES
    \* ---- retry_with_backoff.wrapper ----
    script,          \* what the wrapped function does on invocation 1, 2, ...
    policy,          \* the decorator's arguments
    attempt,         \* the for-loop variable
    delay,           \* local delay
    last_exception,  \* local last_exception
    calls,           \* number of invocations of the wrapped function so far
    sleeps,          \* the arguments of time.sleep, in order
    pc,              \* where the wrapper is
    outcome,         \* how the wrapper ended: the value returned or the error raised
    \* ---- the fetcher that called _make_request ----
    caller,          \* "wrapper" | "get_projects" | "get_project_statistics"
    excluded_users,  \* the excluded_users argument of get_project_statistics
    fetched,         \* what the fetcher returned to its caller
    \* ---- aggregate_monthly_data ----
    api,             \* the remote API: how the listing request and each project's
                     \* statistics request end (after the retries of _make_request)
    report_date,     \* self.report_date, in days since 1970-01-01
    start_month,     \* argument start_month
    end_month,       \* argument end_month
    projects,        \* local projects
    idx,             \* position of the for loop over projects
    stats_list,      \* local stats_list of the current project
    step,            \* position of the three nested loops, as an index of StepVisits
    acc,             \* project_total_words, project_has_work_in_period, target_languages
    data,            \* local data, the tables being built
    apc,             \* where aggregate_monthly_data is
    agg_outcome,     \* how aggregate_monthly_data ended: the dict returned or the error
    \* ---- the callers of aggregate_monthly_data ----
    returned,        \* how the earlier calls of aggregate_monthly_data ended, in order
    gpc,             \* where generate_report is
    health,          \* what the health checks find: which of them fail
    all_passed,      \* what _run_health_checks returned
    monthly_data,    \* local monthly_data of generate_report
    ytd_data,        \* local ytd_data of generate_report
    excel_args,      \* the arguments create_excel_report was called with
    \* ---- create_excel_report ----
    output_path,     \* argument output_path, as the sequence of its path components
    save_effects,    \* the file system: what the attempt at each location ends in
    wb,              \* local wb: the titles of the workbook's sheets
    spc,             \* where create_excel_report is
    save_successful, \* local save_successful
    last_error,      \* local last_error
    saves,           \* the arguments of wb.save, in order
    report_path      \* how create_excel_report ended: the path returned or the error

retryVars == <<script, policy, attempt, delay, last_exception, calls, sleeps, pc, outcome>>
fetchVars == <<caller, excluded_users, fetched>>
aggVars == <<api, report_date, start_month, end_month, projects, idx, stats_list, step,
             acc, data, apc, agg_outcome>>
callerVars == <<returned, gpc, health, all_passed, monthly_data, ytd_data, excel_args>>
saveVars == <<output_path, save_effects, wb, spc, save_successful, last_error, saves,
              report_path>>
vars == <<retryVars, fetchVars, aggVars, callerVars, saveVars>>

(***************************************************************************)
(* Bounds                                                                  *)
(***************************************************************************)
MaxAttempts == 3

(***************************************************************************)
(* Generic helpers                                                         *)
(***************************************************************************)
Min(a, b) == IF a <= b THEN a ELSE b

\* dict.get(key, default)
Get(d, k, default) == IF k \in DOMAIN d THEN d[k] ELSE default

None == [none |-> TRUE]

(***************************************************************************)
(* JSON values as Python sees them.  Every value carries its type, so that *)
(* isinstance tests, truthiness and type errors can be modelled.           *)
(***************************************************************************)
JNull     == [t |-> "null"]
JNum(n)   == [t |-> "num", n |-> n]
JStr(s)   == [t |-> "str", s |-> s]
JList(xs) == [t |-> "list", items |-> xs]
JDict(fs) == [t |-> "dict", fields |-> fs]

IsList(v) == v.t = "list"
IsDict(v) == v.t = "dict"
IsStr(v)  == v.t = "str"
IsNum(v)  == v.t = "num"

\* bool(v)
Truthy(v) ==
    CASE v.t = "null" -> FALSE
      [] v.t = "num"  -> v.n # 0
      [] v.t = "str"  -> v.s # ""
      [] v.t = "list" -> v.items # <<>>
      [] v.t = "dict" -> DOMAIN v.fields # {}

\* d.get(k, default) for a dict d
DictGet(d, k, default) == Get(d.fields, k, default)

(***************************************************************************)
(* What one invocation of the wrapped function can do                      *)
(***************************************************************************)
\* requests.exceptions: the classes each exception class is an instance of
Bases(class) ==
    CASE class = "Timeout"          -> {"Timeout", "RequestException", "Exception"}
      [] class = "ConnectionError"  -> {"ConnectionError", "RequestException", "Exception"}
      [] class = "ConnectTimeout"   -> {"ConnectTimeout", "ConnectionError", "Timeout",
                                        "RequestException", "Exception"}
      [] class = "HTTPError"        -> {"HTTPError", "RequestException", "Exception"}
      [] class = "RequestException" -> {"RequestException", "Exception"}
      [] class = "RequestsJSONDecodeError" ->
            {"RequestsJSONDecodeError", "RequestException", "Exception"}
      [] class = "KeyboardInterrupt" -> {"KeyboardInterrupt", "BaseException"}
      [] class = "ModuleNotFoundError" ->
            {"ModuleNotFoundError", "ImportError", "Exception"}
      [] class = "PermissionError"  -> {"PermissionError", "OSError", "Exception"}
      [] OTHER                      -> {class, "Exception"}

Ok(v) == [kind |-> "ok", value |-> v]
Exc(class) == [kind |-> "raise", class |-> class, has_response |-> FALSE, status_code |-> 0]
HTTPError(code) == [kind |-> "raise", class |-> "HTTPError", has_response |-> TRUE, status_code |-> code]

\* the value or exception object produced by invocation i of a function that
\* behaves as behaviour describes (a script of outcomes, then success)
Func(behaviour, i) ==
    IF i \in DOMAIN behaviour
    THEN behaviour[i] @@ [at |-> i]
    ELSE Ok("Success") @@ [at |-> i]

(***************************************************************************)
(* retry_with_backoff.wrapper                                              *)
(***************************************************************************)
\* the except clauses of the wrapper, in the order Python tries them
ExceptClauses == <<"Timeout", "ConnectionError", "HTTPError", "RequestException", "Exception">>

\* the first except clause that matches exception e ("uncaught" when none does)
HandlerFor(e) ==
    LET hits == {k \in DOMAIN ExceptClauses : ExceptClauses[k] \in Bases(e.class)}
    IN  IF hits = {} THEN "uncaught"
        ELSE ExceptClauses[CHOOSE k \in hits : \A j \in hits : k <= j]

\* variants of NoRetryStatus: 429 not excepted; 400 retried; 500 not retried
NoRetryStatus_429(e) ==
    e.has_response /\ 400 <= e.status_code /\ e.status_code < 500
NoRetryStatus_400(e) ==
    e.has_response /\ 400 < e.status_code /\ e.status_code < 500 /\ e.status_code # 429
NoRetryStatus_500(e) ==
    e.has_response /\ 400 <= e.status_code /\ e.status_code <= 500 /\ e.status_code # 429

\* lines 66-68: an HTTPError the wrapper re-raises at once
NoRetryStatus(e) ==
    /\ e.has_response
    /\ 400 <= e.status_code
    /\ e.status_code < 500
    /\ e.status_code # 429

\* variant of Reraises: the except Exception clause falls through to the retry
Reraises_RetryAll(e) ==
    LET h == HandlerFor(e)
    IN  \/ h = "uncaught"
        \/ h = "HTTPError" /\ NoRetryStatus(e)

\* TRUE when the handler of e ends in a bare raise
Reraises(e) ==
    LET h == HandlerFor(e)
    IN  \/ h = "uncaught"
        \/ h = "Exception"
        \/ h = "HTTPError" /\ NoRetryStatus(e)

\* variant of Remember: only the first error is kept
Remember_First(last, e) ==
    IF last = None
          /\ HandlerFor(e) \in {"Timeout", "ConnectionError", "HTTPError", "RequestException"}
    THEN e ELSE last

\* last_exception after the handler of e has run
Remember(last, e) ==
    IF HandlerFor(e) \in {"Timeout", "ConnectionError", "HTTPError", "RequestException"}
    THEN e ELSE last

\* line 81
MoreAttempts(n, max) == n < max

\* the variant without the cap
WaitTime_Uncapped(d, max_delay) == d

\* line 82
WaitTime(d, max_delay) == Min(d, max_delay)

\* line 85
NextDelay(d, factor) == d * factor

\* lines 55-78: one invocation of the wrapped function and its except clause
Attempt ==
    /\ pc = "call"
    /\ LET r == Func(script, calls + 1)
       IN  /\ calls' = calls + 1
           /\ IF r.kind = "ok"
              THEN /\ pc' = "returned"
                   /\ outcome' = r
                   /\ last_exception' = last_exception
              ELSE /\ last_exception' = Remember(last_exception, r)
                   /\ IF Reraises(r)
                      THEN pc' = "raised" /\ outcome' = r
                      ELSE pc' = "backoff" /\ outcome' = outcome
    /\ UNCHANGED <<script, policy, attempt, delay, sleeps, fetchVars, aggVars, callerVars, saveVars>>

\* lines 80-85, then the next iteration of the for loop (or its end)
Backoff ==
    /\ pc = "backoff"
    /\ IF MoreAttempts(attempt, policy.max_attempts)
       THEN /\ sleeps' = Append(sleeps, WaitTime(delay, policy.max_delay))
            /\ delay' = NextDelay(delay, policy.backoff_factor)
            /\ attempt' = attempt + 1
            /\ pc' = "call"
       ELSE /\ pc' = "exhausted"
            /\ UNCHANGED <<sleeps, delay, attempt>>
    /\ UNCHANGED <<script, policy, last_exception, calls, outcome, fetchVars, aggVars, callerVars, saveVars>>

\* lines 87-89: raise last_exception
RaiseLast ==
    /\ pc = "exhausted"
    /\ pc' = "raised"
    /\ outcome' = last_exception
    /\ UNCHANGED <<script, policy, attempt, delay, last_exception, calls, sleeps, fetchVars,
                   aggVars, callerVars, saveVars>>

(***************************************************************************)
(* XTMReportGenerator._make_request: the function the wrapper wraps        *)
(***************************************************************************)
\* what requests.get / requests.post can do
NetTimeout         == [kind |-> "timeout"]
NetConnectionError == [kind |-> "connection_error"]
Response(code, body) ==
    [kind |-> "response", status_code |-> code, has_content |-> TRUE, bad_json |-> FALSE,
     json |-> body]
\* a body that is not JSON; raises names the exception of response.json(), which
\* depends on the installed requests: json.JSONDecodeError (a ValueError) or
\* requests.exceptions.JSONDecodeError (a RequestException too)
BadJsonResponse(code, raises) ==
    [kind |-> "response", status_code |-> code, has_content |-> TRUE, bad_json |-> TRUE,
     raises |-> raises]
EmptyResponse(code) ==
    [kind |-> "response", status_code |-> code, has_content |-> FALSE]

\* lines 308-332: the body of _make_request for one exchange x with the server
MakeRequestBody(method, x) ==
    IF method \notin {"GET", "POST"} THEN Exc("ValueError")
    ELSE CASE x.kind = "timeout"          -> Exc("Timeout")
           [] x.kind = "connection_error" -> Exc("ConnectionError")
           [] x.kind = "response" ->
                IF 400 <= x.status_code /\ x.status_code < 600
                THEN HTTPError(x.status_code)
                ELSE IF ~x.has_content THEN Ok(JDict(<<>>))
                ELSE IF x.bad_json THEN Exc(x.raises)
                ELSE Ok(x.json)

\* line 305: the decorator arguments of _make_request
MakeRequestPolicy ==
    [max_attempts |-> 5, initial_delay |-> 2, backoff_factor |-> 2, max_delay |-> 60]

(***************************************************************************)
(* str helpers                                                             *)
(***************************************************************************)
UpperCase == "ABCDEFGHIJKLMNOPQRSTUVWXYZ"
LowerCase == "abcdefghijklmnopqrstuvwxyz"

CharAt(s, i) == SubSeq(s, i, i)

\* str.lower() of one character
LowerChar(c) ==
    LET hits == {i \in 1..Len(UpperCase) : CharAt(UpperCase, i) = c}
    IN  IF hits = {} THEN c ELSE CharAt(LowerCase, CHOOSE i \in hits : TRUE)

\* str.lower()
\* the variant that leaves the letter case alone
Lower_AsIs(s) == s

RECURSIVE Lower(_)
Lower(s) == IF s = "" THEN "" ELSE LowerChar(Head(s)) \o Lower(Tail(s))

(***************************************************************************)
(* get_projects / get_project_statistics                                   *)
(***************************************************************************)
\* line 366: the default of excluded_users
DefaultExcluded ==
    <<"leo.chang@familysearch.org", "LeoAdmin",
      "Robert.Sena@churchofjesuschrist.org", "MartinADMIN">>

\* an except clause for class catches exception e
Catches(class, e) == class \in Bases(e.class)

\* the variant with a narrower except clause
ExceptException_RequestsOnly(body, fallback) ==
    IF body.kind = "raise" /\ Catches("RequestException", body) THEN Ok(fallback) ELSE body

\* try: body except Exception: return fallback
ExceptException(body, fallback) ==
    IF body.kind = "raise" /\ Catches("Exception", body) THEN Ok(fallback) ELSE body

\* the variant that returns the payload whatever its type
GetProjectsBody_AnyPayload(r) ==
    IF r.kind = "raise" THEN r ELSE Ok(r.value)

\* lines 337-344: the try block of get_projects, given how self._make_request ended
GetProjectsBody(r) ==
    IF r.kind = "raise" THEN r
    ELSE Ok(IF IsList(r.value) THEN r.value ELSE JList(<<>>))

\* lines 334-347: get_projects
GetProjects(r) == ExceptException(GetProjectsBody(r), JList(<<>>))

\* line 374
ExcludedLower(excluded) == {Lower(excluded[i]) : i \in DOMAIN excluded}

\* the elements a for loop over v visits; iterating None or a number raises
CanIterate(v) == v.t \in {"list", "str", "dict"}
IterItems(v) ==
    CASE v.t = "list" -> v.items
      [] v.t = "str"  -> [i \in 1..Len(v.s) |-> JStr(CharAt(v.s, i))]
      [] v.t = "dict" -> [i \in 1..Cardinality(DOMAIN v.fields) |-> JStr("key")]

\* lines 379 and 383: TRUE when filtering one element of stats raises
\* (AttributeError on .get or .lower, TypeError on iteration)
FilterRaises(lang_stats) ==
    \/ ~IsDict(lang_stats)
    \/ LET users == DictGet(lang_stats, "usersStatistics", JList(<<>>))
       IN  \/ ~CanIterate(users)
           \/ \E i \in DOMAIN IterItems(users) :
                 LET user == IterItems(users)[i]
                 IN  \/ ~IsDict(user)
                     \/ ~IsStr(DictGet(user, "username", JStr("")))

\* lines 381-384
FilteredUsers(lang_stats, excluded) ==
    SelectSeq(IterItems(DictGet(lang_stats, "usersStatistics", JList(<<>>))),
              LAMBDA user : Lower(DictGet(user, "username", JStr("")).s)
                                \notin ExcludedLower(excluded))

\* lines 377-391
RECURSIVE FilterStats(_, _)
FilterStats(stats, excluded) ==
    IF stats = <<>> THEN <<>>
    ELSE LET lang_stats == Head(stats)
             filtered_users == FilteredUsers(lang_stats, excluded)
             rest == FilterStats(Tail(stats), excluded)
         IN  IF filtered_users # <<>>
             THEN <<JDict([k \in DOMAIN lang_stats.fields \cup {"usersStatistics"} |->
                            IF k = "usersStatistics" THEN JList(filtered_users)
                            ELSE lang_stats.fields[k]])>> \o rest
             ELSE rest

\* lines 369-391: the try block of get_project_statistics, given how
\* self._make_request ended
GetProjectStatisticsBody(r, excluded) ==
    IF r.kind = "raise" THEN r
    ELSE IF ~IsList(r.value) THEN Ok(JList(<<>>))
    ELSE IF \E i \in DOMAIN r.value.items : FilterRaises(r.value.items[i])
         THEN Exc("AttributeError")
    ELSE Ok(JList(FilterStats(r.value.items, excluded)))

\* lines 363-394: get_project_statistics
GetProjectStatistics(r, excluded) ==
    ExceptException(GetProjectStatisticsBody(r, excluded), JList(<<>>))

\* get_projects or get_project_statistics ends, once the wrapper around
\* _make_request has ended
FetcherReturns ==
    /\ caller \in {"get_projects", "get_project_statistics"}
    /\ pc \in {"returned", "raised"}
    /\ fetched = None
    /\ fetched' = IF caller = "get_projects" THEN GetProjects(outcome)
                  ELSE GetProjectStatistics(outcome, excluded_users)
    /\ UNCHANGED <<retryVars, caller, excluded_users, aggVars, callerVars, saveVars>>

(***************************************************************************)
(* Dates: a timestamp is counted in days since 1970-01-01 (the code's      *)
(* epoch milliseconds divided by 86 400 000), local time being UTC.        *)
(***************************************************************************)
\* datetime.fromtimestamp: the civil date of day number z (proleptic Gregorian)
CivilFromDays(days) ==
    LET z   == days + 719468
        era == z \div 146097
        doe == z - era * 146097
        yoe == (doe - doe \div 1460 + doe \div 36524 - doe \div 146096) \div 365
        doy == doe - (365 * yoe + yoe \div 4 - yoe \div 100)
        mp  == (5 * doy + 2) \div 153
        d   == doy - (153 * mp + 2) \div 5 + 1
        m   == IF mp < 10 THEN mp + 3 ELSE mp - 9
        y   == yoe + era * 400 + (IF m <= 2 THEN 1 ELSE 0)
    IN  [year |-> y, month |-> m, day |-> d]

Digits == "0123456789"
DigitChar(n) == CharAt(Digits, n + 1)

\* a number printed in decimal, zero-padded to width w
RECURSIVE Padded(_, _)
Padded(n, w) ==
    IF w = 0 THEN "" ELSE Padded(n \div 10, w - 1) \o DigitChar(n % 10)

\* dt.strftime('%Y-%m')
StrftimeYm(dt) == Padded(dt.year, 4) \o "-" \o Padded(dt.month, 2)

\* dt.strftime('%Y-01')
StrftimeY01(dt) == Padded(dt.year, 4) \o "-01"

\* the code point order of the characters month strings are made of
CodePoints == "-0123456789"
Ord(c) == CHOOSE i \in 1..Len(CodePoints) : CharAt(CodePoints, i) = c

\* Python's a < b on str
RECURSIVE StrLess(_, _)
StrLess(a, b) ==
    IF b = "" THEN FALSE
    ELSE IF a = "" THEN TRUE
    ELSE IF Head(a) = Head(b) THEN StrLess(Tail(a), Tail(b))
    ELSE Ord(Head(a)) < Ord(Head(b))

\* lines 176-186 of __init__: the report month and the year-to-date range
LastDayPreviousMonth(today) == today - CivilFromDays(today).day
ReportMonth(today)   == StrftimeYm(CivilFromDays(LastDayPreviousMonth(today)))
YtdStartMonth(today) == StrftimeY01(CivilFromDays(LastDayPreviousMonth(today)))

(***************************************************************************)
(* Pieces of aggregate_monthly_data                                        *)
(***************************************************************************)
\* lines 99-165
LOCALE_TO_LANGUAGE ==
    [ ar_AE |-> "Arabic (UAE)", ar_EG |-> "Arabic (Egypt)", ar_SA |-> "Arabic (Saudi Arabia)",
      bg_BG |-> "Bulgarian", ceb |-> "Cebuano", cs_CZ |-> "Czech",
      da_DK |-> "Danish", de_DE |-> "German", el_CY |-> "Greek (Cyprus)",
      el_GR |-> "Greek", en_US |-> "English (US)", en_GB |-> "English (UK)",
      es_ES |-> "Spanish", es_MX |-> "Spanish (Mexico)", et_EE |-> "Estonian",
      fa_IR |-> "Persian", fi_FI |-> "Finnish", fj_FJ |-> "Fijian",
      fr_FR |-> "French", hr_BA |-> "Croatian (Bosnia)", hr_HR |-> "Croatian",
      ht_HT |-> "Haitian Creole", hu_HU |-> "Hungarian", hy_AM |-> "Armenian",
      id_ID |-> "Indonesian", is_IS |-> "Icelandic", it_IT |-> "Italian",
      ja_JP |-> "Japanese", ka_GE |-> "Georgian", kk_KZ |-> "Kazakh",
      km_KH |-> "Khmer", ko_KR |-> "Korean", lo_LA |-> "Lao",
      lt_LT |-> "Lithuanian", lv_LV |-> "Latvian", mg_MG |-> "Malagasy",
      mk_MK |-> "Macedonian", mn_MN |-> "Mongolian", ms_MY |-> "Malay",
      nl_NL |-> "Dutch", no_NO |-> "Norwegian", pl_PL |-> "Polish",
      pt_BR |-> "Portuguese (Brazil)", pt_PT |-> "Portuguese (Portugal)", ro_RO |-> "Romanian",
      ru_RU |-> "Russian", sk_SK |-> "Slovak", sl_SI |-> "Slovenian",
      sm_WS |-> "Samoan", sq_AL |-> "Albanian", sr_RS |-> "Serbian",
      sv_SE |-> "Swedish", sw_KE |-> "Swahili (Kenya)", sw_TZ |-> "Swahili (Tanzania)",
      th_TH |-> "Thai", tl_PH |-> "Tagalog", to_TO |-> "Tongan",
      tr_TR |-> "Turkish", ty |-> "Tahitian", uk_UA |-> "Ukrainian",
      ur_IN |-> "Urdu", vi_VN |-> "Vietnamese", zh_CN |-> "Chinese (Simplified)",
      zh_HK |-> "Chinese (Hong Kong)", zh_TW |-> "Chinese (Traditional)" ]

\* the variant that leaves the locale code as it is
LocaleToLanguageName_Code(locale_code) == locale_code

\* lines 218-220
LocaleToLanguageName(locale_code) == Get(LOCALE_TO_LANGUAGE, locale_code, locale_code)

\* line 479: ''.join([c for c in step_name if not c.isdigit()])
IsDigit(c) == \E i \in 1..Len(Digits) : CharAt(Digits, i) = c
\* the variant that keeps the raw name
CleanStepName_Raw(step_name) == step_name

RECURSIVE CleanStepName(_)
CleanStepName(step_name) ==
    IF step_name = "" THEN ""
    ELSE (IF IsDigit(Head(step_name)) THEN "" ELSE Head(step_name))
             \o CleanStepName(Tail(step_name))

\* lines 488-497: completion_month of a job, "" standing for None
CompletionMonth(job_stat) ==
    LET last_completion_date == DictGet(job_stat, "lastCompletionDate", JNull)
    IN  IF Truthy(last_completion_date) /\ IsNum(last_completion_date)
        THEN StrftimeYm(CivilFromDays(last_completion_date.n))
        ELSE ""

\* the variant without the test against end_month
InRange_NoUpperBound(completion_month, lo, hi) ==
    /\ completion_month # ""
    /\ ~StrLess(completion_month, lo)

\* the variant whose bounds are exclusive
InRange_Exclusive(completion_month, lo, hi) ==
    /\ completion_month # ""
    /\ StrLess(lo, completion_month) /\ StrLess(completion_month, hi)

\* lines 500-505: TRUE when the job is not skipped
InRange(completion_month, lo, hi) ==
    /\ completion_month # ""
    /\ ~(StrLess(completion_month, lo) \/ StrLess(hi, completion_month))

\* lines 513-523: the eleven word-count fields
WordFields ==
    <<"iceMatchWords", "leveragedWords", "repeatsWords", "machineTranslationWords",
      "highFuzzyMatchWords", "mediumFuzzyMatchWords", "lowFuzzyMatchWords",
      "highFuzzyRepeatsWords", "mediumFuzzyRepeatsWords", "lowFuzzyRepeatsWords",
      "noMatchingWords">>

RECURSIVE SumFields(_, _)
SumFields(source_stats, fields) ==
    IF fields = <<>> THEN 0
    ELSE DictGet(source_stats, Head(fields), JNum(0)).n + SumFields(source_stats, Tail(fields))

\* lines 512-528: job_words
JobWords(job_stat) ==
    SumFields(DictGet(job_stat, "sourceStatistics", JDict(<<>>)), WordFields)

\* lines 483-529: step_total_words
RECURSIVE StepTotalWords(_, _, _)
StepTotalWords(jobs, lo, hi) ==
    IF jobs = <<>> THEN 0
    ELSE (IF InRange(CompletionMonth(Head(jobs)), lo, hi)
          THEN JobWords(Head(jobs)) ELSE 0)
         + StepTotalWords(Tail(jobs), lo, hi)

RECURSIVE Flatten(_)
Flatten(seqs) == IF seqs = <<>> THEN <<>> ELSE Head(seqs) \o Flatten(Tail(seqs))

\* lines 465-476: the (language, user, step) triples the three nested for loops
\* visit, in the order they visit them
\* (a stepsStatistics that cannot be iterated is one visit, of NotIterable)
NotIterable == [t |-> "error"]
StepVisits(sl) ==
    Flatten([l \in DOMAIN sl.items |->
        LET lang_stats == sl.items[l]
            users == DictGet(lang_stats, "usersStatistics", JList(<<>>)).items
        IN  Flatten([u \in DOMAIN users |->
                LET steps_statistics == DictGet(users[u], "stepsStatistics", JList(<<>>))
                    steps == IF CanIterate(steps_statistics)
                             THEN IterItems(steps_statistics)
                             ELSE <<NotIterable>>
                IN  [k \in DOMAIN steps |->
                        [lang_stats |-> lang_stats, user_stats |-> users[u],
                         step_stat |-> steps[k]]]])])

\* lines 466-467
TargetLangName(lang_stats) ==
    LocaleToLanguageName(DictGet(lang_stats, "targetLanguage", JStr("unknown")).s)

\* line 473
Username(user_stats) == DictGet(user_stats, "username", JStr("Unknown")).s

\* line 477
StepName(step_stat) == DictGet(step_stat, "workflowStepName", JStr("")).s

\* line 542
WorkflowKey(clean_step_name, target_lang_name) ==
    clean_step_name \o " - " \o target_lang_name

\* line 557
UserLangKey(username, target_lang_name) == username \o "||" \o target_lang_name

\* the variant in which the tables of an earlier call are used again
EmptyData_Carried ==
    IF returned # <<>> /\ returned[Len(returned)].kind = "ok"
    THEN returned[Len(returned)].value
    ELSE [project_stats |-> [total |-> 0, completed |-> 0, in_progress |-> 0, pending |-> 0],
          workflow_by_language |-> <<>>,
          user_statistics |-> <<>>,
          projects |-> <<>>]

\* lines 430-440
EmptyData ==
    [project_stats |-> [total |-> 0, completed |-> 0, in_progress |-> 0, pending |-> 0],
     workflow_by_language |-> <<>>,
     user_statistics |-> <<>>,
     projects |-> <<>>]

\* lines 460-463
EmptyAcc ==
    [project_total_words |-> 0, project_has_work_in_period |-> FALSE,
     target_languages |-> <<>>]

InSeq(x, seq) == \E i \in DOMAIN seq : seq[i] = x

\* the variant that also takes a total of zero
HasWords_OrZero(step_total_words) == step_total_words >= 0

\* the variant without the test
HasWords_Always(step_total_words) == TRUE

\* line 532 and line 536
HasWords(step_total_words) == step_total_words > 0

\* lines 544-553: workflow_by_language after a step with step_total_words > 0
AddWorkflowWords(wbl, clean_step_name, target_lang_name, step_total_words) ==
    LET workflow_key == WorkflowKey(clean_step_name, target_lang_name)
        old == IF workflow_key \in DOMAIN wbl THEN wbl
               ELSE wbl @@ (workflow_key :>
                        [workflow_step |-> clean_step_name, language |-> target_lang_name,
                         words_done |-> 0, words_to_be_done |-> 0, projects |-> 0])
    IN  [old EXCEPT ![workflow_key].words_done = @ + step_total_words]

\* the variant that stores the step's words instead of adding them
AddUserWords_Overwrite(us, username, clean_step_name, target_lang_name, step_total_words) ==
    LET user_lang_key == UserLangKey(username, target_lang_name)
        old == IF user_lang_key \in DOMAIN us THEN us
               ELSE us @@ (user_lang_key :>
                        [username |-> username, language |-> target_lang_name,
                         workflow_steps |-> <<>>])
        steps == old[user_lang_key].workflow_steps
        known == IF clean_step_name \in DOMAIN steps THEN steps
                 ELSE steps @@ (clean_step_name :> 0)
    IN  [old EXCEPT ![user_lang_key].workflow_steps =
                        [known EXCEPT ![clean_step_name] = step_total_words]]

\* lines 557-568: user_statistics after a step with step_total_words > 0
AddUserWords(us, username, clean_step_name, target_lang_name, step_total_words) ==
    LET user_lang_key == UserLangKey(username, target_lang_name)
        old == IF user_lang_key \in DOMAIN us THEN us
               ELSE us @@ (user_lang_key :>
                        [username |-> username, language |-> target_lang_name,
                         workflow_steps |-> <<>>])
        steps == old[user_lang_key].workflow_steps
        known == IF clean_step_name \in DOMAIN steps THEN steps
                 ELSE steps @@ (clean_step_name :> 0)
    IN  [old EXCEPT ![user_lang_key].workflow_steps =
                        [known EXCEPT ![clean_step_name] = @ + step_total_words]]

\* lines 488-529: the exception the body of the for loop over jobs raises for
\* one job ("" when it raises none): AttributeError on .get of a job or of a
\* sourceStatistics that is not a dict, TypeError on adding a count that is not
\* a number; a job that is skipped (lines 500-505) is not looked at further
JobRaise(job_stat, lo, hi) ==
    IF ~IsDict(job_stat) THEN "AttributeError"
    ELSE IF ~InRange(CompletionMonth(job_stat), lo, hi) THEN ""
    ELSE LET source_stats == DictGet(job_stat, "sourceStatistics", JDict(<<>>))
         IN  IF ~IsDict(source_stats) THEN "AttributeError"
             ELSE IF \E i \in DOMAIN WordFields :
                        ~IsNum(DictGet(source_stats, WordFields[i], JNum(0)))
                  THEN "TypeError"
             ELSE ""

\* the exception of the first job that raises one
RECURSIVE JobsRaise(_, _, _)
JobsRaise(jobs, lo, hi) ==
    IF jobs = <<>> THEN ""
    ELSE IF JobRaise(Head(jobs), lo, hi) # "" THEN JobRaise(Head(jobs), lo, hi)
    ELSE JobsRaise(Tail(jobs), lo, hi)

\* the variant in which a step must carry its name and its job list
StepRaise_KeyError(visit, lo, hi) ==
    IF visit.step_stat = NotIterable THEN "TypeError"
    ELSE IF ~IsDict(visit.step_stat) THEN "AttributeError"
    ELSE IF {"workflowStepName", "jobsStatistics"} \ DOMAIN visit.step_stat.fields # {}
         THEN "KeyError"
    ELSE IF ~CanIterate(visit.step_stat.fields.workflowStepName) THEN "TypeError"
    ELSE IF ~CanIterate(visit.step_stat.fields.jobsStatistics) THEN "TypeError"
    ELSE JobsRaise(IterItems(visit.step_stat.fields.jobsStatistics), lo, hi)

\* lines 476-529: the exception the body of the for loop over steps raises for
\* one visit ("" when it raises none): TypeError on a stepsStatistics, a
\* workflowStepName or a jobsStatistics that cannot be iterated (null, a
\* number), AttributeError on .get of a step that is not a dict
StepRaise(visit, lo, hi) ==
    IF visit.step_stat = NotIterable THEN "TypeError"
    ELSE IF ~IsDict(visit.step_stat) THEN "AttributeError"
    ELSE IF ~CanIterate(DictGet(visit.step_stat, "workflowStepName", JStr("")))
         THEN "TypeError"
    ELSE LET jobs_statistics == DictGet(visit.step_stat, "jobsStatistics", JList(<<>>))
         IN  IF ~CanIterate(jobs_statistics) THEN "TypeError"
             ELSE JobsRaise(IterItems(jobs_statistics), lo, hi)

\* lines 476-568: the body of the innermost for loop over steps, for one visit
\* that raises nothing; st is [data, acc]
StepBody(st, visit, lo, hi) ==
    LET target_lang_name == TargetLangName(visit.lang_stats)
        username == Username(visit.user_stats)
        clean_step_name == CleanStepName(StepName(visit.step_stat))
        jobs_statistics == DictGet(visit.step_stat, "jobsStatistics", JList(<<>>)).items
        step_total_words == StepTotalWords(jobs_statistics, lo, hi)
    IN  IF ~HasWords(step_total_words) THEN st
        ELSE [data |->
                [st.data EXCEPT
                    !.workflow_by_language =
                        AddWorkflowWords(@, clean_step_name, target_lang_name, step_total_words),
                    !.user_statistics =
                        AddUserWords(@, username, clean_step_name, target_lang_name,
                                     step_total_words)],
              acc |->
                [project_total_words |-> st.acc.project_total_words + step_total_words,
                 project_has_work_in_period |-> TRUE,
                 target_languages |->
                    IF InSeq(target_lang_name, st.acc.target_languages)
                    THEN st.acc.target_languages
                    ELSE Append(st.acc.target_languages, target_lang_name)]]

\* line 585: the set of raw step names of the whole stats_list
RawStepNames(sl) ==
    {StepName(StepVisits(sl)[i].step_stat) : i \in DOMAIN StepVisits(sl)}

\* lines 584-589: the projects tallies after one project
MarkProjects(wbl, target_languages, raw_step_names) ==
    [workflow_key \in DOMAIN wbl |->
        [wbl[workflow_key] EXCEPT !.projects = @ + Cardinality(
            {p \in (DOMAIN target_languages) \X raw_step_names :
                WorkflowKey(CleanStepName(p[2]), target_languages[p[1]]) = workflow_key})]]

\* ', '.join(names)
RECURSIVE JoinComma(_)
JoinComma(names) ==
    IF names = <<>> THEN ""
    ELSE IF Len(names) = 1 THEN names[1]
    ELSE names[1] \o ", " \o JoinComma(Tail(names))

\* the variant that counts a project of any other status in total only
CountProject_NoPending(project_stats, status) ==
    LET counted == [project_stats EXCEPT !.total = @ + 1]
    IN  IF status = JStr("FINISHED") THEN [counted EXCEPT !.completed = @ + 1]
        ELSE IF status \in {JStr("IN_PROGRESS"), JStr("STARTED")}
             THEN [counted EXCEPT !.in_progress = @ + 1]
        ELSE counted

\* the variant whose in-progress test knows IN_PROGRESS only
CountProject_OneInProgress(project_stats, status) ==
    LET counted == [project_stats EXCEPT !.total = @ + 1]
    IN  IF status = JStr("FINISHED") THEN [counted EXCEPT !.completed = @ + 1]
        ELSE IF status = JStr("IN_PROGRESS") THEN [counted EXCEPT !.in_progress = @ + 1]
        ELSE [counted EXCEPT !.pending = @ + 1]

\* lines 574-581: project_stats after one more counted project
CountProject(project_stats, status) ==
    LET counted == [project_stats EXCEPT !.total = @ + 1]
    IN  IF status = JStr("FINISHED") THEN [counted EXCEPT !.completed = @ + 1]
        ELSE IF status \in {JStr("IN_PROGRESS"), JStr("STARTED")}
             THEN [counted EXCEPT !.in_progress = @ + 1]
        ELSE [counted EXCEPT !.pending = @ + 1]

\* line 571
ProjectCounts(a) == a.project_has_work_in_period /\ a.project_total_words > 0

\* lines 570-600: what follows the nested loops of one project; st is [data, acc]
FinishBody(st, project, the_stats_list) ==
    IF ~ProjectCounts(st.acc) THEN st.data
    ELSE LET status == DictGet(project, "status", JStr("UNKNOWN"))
         IN  [st.data EXCEPT
                !.project_stats = CountProject(@, status),
                !.workflow_by_language =
                    MarkProjects(@, st.acc.target_languages, RawStepNames(the_stats_list)),
                !.projects = Append(@,
                    [id |-> DictGet(project, "id", JNull),
                     name |-> DictGet(project, "name", JStr("Unknown")),
                     status |-> status,
                     source_lang |-> "en_US",
                     target_langs |-> JoinComma(st.acc.target_languages),
                     total_words |-> st.acc.project_total_words,
                     created_date |-> JNull])]

\* the request projects/{project_id}/statistics, as the API answers it
StatisticsOutcome(the_api, project_id) ==
    IF IsNum(project_id) /\ project_id.n \in DOMAIN the_api.statistics
    THEN the_api.statistics[project_id.n]
    ELSE HTTPError(404)

\* line 453: self.get_project_statistics(project_id); in test_graceful_degradation
\* the method is replaced by a mock, whose outcome is then the one marked mocked
CallGetProjectStatistics(the_api, project_id) ==
    LET r == StatisticsOutcome(the_api, project_id)
    IN  IF "mocked" \in DOMAIN r THEN r
        ELSE GetProjectStatistics(r, DefaultExcluded)

\* the variant in which the except clause catches nothing
ExceptContinue_Never(got) == FALSE

\* lines 454-456: except Exception ... continue
ExceptContinue(got) == got.kind = "raise" /\ Catches("Exception", got)

\* line 447
HasId(project) == Truthy(DictGet(project, "id", JNull))

\* line 459
HasStatistics(the_stats_list) == IsList(the_stats_list) /\ Truthy(the_stats_list)

(***************************************************************************)
(* aggregate_monthly_data as a whole (the loops folded), for comparing the *)
(* result on one input with the result on another                          *)
(***************************************************************************)
RECURSIVE RunSteps(_, _, _, _)
RunSteps(st, visits, lo, hi) ==
    IF visits = <<>> THEN Ok(st)
    ELSE IF StepRaise(Head(visits), lo, hi) # "" THEN Exc(StepRaise(Head(visits), lo, hi))
    ELSE RunSteps(StepBody(st, Head(visits), lo, hi), Tail(visits), lo, hi)

\* lines 446-600: the body of the for loop over projects
ProjectBody(d, project, the_api, lo, hi) ==
    IF ~HasId(project) THEN Ok(d)
    ELSE LET got == CallGetProjectStatistics(the_api, DictGet(project, "id", JNull))
             sl == got.value
         IN  IF ExceptContinue(got) THEN Ok(d)
             ELSE IF got.kind = "raise" THEN got
             ELSE IF ~HasStatistics(sl) THEN Ok(d)
             ELSE LET ran == RunSteps([data |-> d, acc |-> EmptyAcc], StepVisits(sl),
                                      lo, hi)
                  IN  IF ran.kind = "raise" THEN ran
                      ELSE Ok(FinishBody(ran.value, project, sl))

RECURSIVE RunProjects(_, _, _, _, _)
RunProjects(o, ps, the_api, lo, hi) ==
    IF ps = <<>> \/ o.kind = "raise" THEN o
    ELSE RunProjects(ProjectBody(o.value, Head(ps), the_api, lo, hi), Tail(ps), the_api,
                     lo, hi)

\* lines 420-603
AggregateMonthlyData(the_api, lo, hi) ==
    LET got == GetProjects(the_api.projects)
    IN  IF got.kind = "raise" THEN got
        ELSE RunProjects(Ok(EmptyData), got.value.items, the_api, lo, hi)

(***************************************************************************)
(* aggregate_monthly_data, step by step                                    *)
(***************************************************************************)
\* lines 429-443: fresh tables, then the project list
GetAllProjects ==
    /\ apc = "start"
    /\ data' = EmptyData
    /\ LET got == GetProjects(api.projects)
       IN  IF got.kind = "raise"
           THEN /\ apc' = "raised"
                /\ agg_outcome' = got
                /\ UNCHANGED <<projects, idx>>
           ELSE /\ projects' = got.value
                /\ idx' = 1
                /\ apc' = "project"
                /\ agg_outcome' = agg_outcome
    /\ UNCHANGED <<retryVars, fetchVars, callerVars, saveVars, api, report_date, start_month,
                   end_month,
                   stats_list, step, acc>>

\* lines 446-448: a project without an id
SkipProject ==
    /\ apc = "project"
    /\ idx <= Len(projects.items)
    /\ ~HasId(projects.items[idx])
    /\ idx' = idx + 1
    /\ UNCHANGED <<retryVars, fetchVars, callerVars, saveVars, api, report_date, start_month,
                   end_month,
                   projects, stats_list, step, acc, data, apc, agg_outcome>>

\* lines 450-463: the statistics of the current project
FetchStatistics ==
    /\ apc = "project"
    /\ idx <= Len(projects.items)
    /\ HasId(projects.items[idx])
    /\ LET got == CallGetProjectStatistics(api, DictGet(projects.items[idx], "id", JNull))
       IN  IF ExceptContinue(got)
           THEN /\ idx' = idx + 1
                /\ UNCHANGED <<stats_list, acc, step, apc, agg_outcome>>
           ELSE IF got.kind = "raise"
           THEN \* an exception the except clause does not catch leaves the function
                /\ apc' = "raised"
                /\ agg_outcome' = got
                /\ UNCHANGED <<stats_list, acc, step, idx>>
           ELSE /\ stats_list' = got.value
                /\ agg_outcome' = agg_outcome
                /\ IF HasStatistics(got.value)
                   THEN /\ acc' = EmptyAcc
                        /\ step' = 1
                        /\ apc' = "steps"
                        /\ idx' = idx
                   ELSE /\ idx' = idx + 1
                        /\ UNCHANGED <<acc, step, apc>>
    /\ UNCHANGED <<retryVars, fetchVars, callerVars, saveVars, api, report_date, start_month,
                   end_month,
                   projects, data>>

\* lines 476-568: one pass of the innermost for loop over steps
ProcessStep ==
    /\ apc = "steps"
    /\ step <= Len(StepVisits(stats_list))
    /\ LET visit == StepVisits(stats_list)[step]
           raised == StepRaise(visit, start_month, end_month)
           st == StepBody([data |-> data, acc |-> acc], visit, start_month, end_month)
       IN  IF raised # ""
           THEN /\ apc' = "raised"
                /\ agg_outcome' = Exc(raised)
                /\ UNCHANGED <<data, acc, step>>
           ELSE /\ data' = st.data
                /\ acc' = st.acc
                /\ step' = step + 1
                /\ UNCHANGED <<apc, agg_outcome>>
    /\ UNCHANGED <<retryVars, fetchVars, callerVars, saveVars, api, report_date, start_month,
                   end_month,
                   projects, idx, stats_list>>

\* lines 570-600: the project is counted, or not
FinishProject ==
    /\ apc = "steps"
    /\ step > Len(StepVisits(stats_list))
    /\ data' = FinishBody([data |-> data, acc |-> acc], projects.items[idx], stats_list)
    /\ idx' = idx + 1
    /\ apc' = "project"
    /\ UNCHANGED <<retryVars, fetchVars, callerVars, saveVars, api, report_date, start_month,
                   end_month,
                   projects, stats_list, step, acc, agg_outcome>>

\* lines 602-603
ReturnData ==
    /\ apc = "project"
    /\ idx > Len(projects.items)
    /\ apc' = "done"
    /\ agg_outcome' = Ok(data)
    /\ UNCHANGED <<retryVars, fetchVars, callerVars, saveVars, api, report_date, start_month,
                   end_month,
                   projects, idx, stats_list, step, acc, data>>

(***************************************************************************)
(* _run_health_checks and generate_report                                  *)
(***************************************************************************)
\* the variant whose first except clause takes request errors only
ApiCheckExcept_RequestsOnly(e) == Catches("RequestException", e)

\* line 233: except Exception
ApiCheckExcept(e) == Catches("Exception", e)

\* lines 228-235, check 1: the request projects?count=1 through _make_request
CheckApi(h, passed) ==
    IF h.api.kind = "ok" THEN Ok(passed)
    ELSE IF ApiCheckExcept(h.api) THEN Ok(FALSE)
    ELSE h.api

\* the variant in which a directory that cannot be used fails the checks
CheckOutputDir_Critical(h, passed) ==
    IF h.dir = Ok("writable") THEN Ok(passed)
    ELSE IF h.dir.kind = "ok" \/ Catches("Exception", h.dir) THEN Ok(FALSE)
    ELSE h.dir

\* lines 238-261, check 2: whatever the output directory does is a warning
CheckOutputDir(h, passed) ==
    IF h.dir.kind = "ok" \/ Catches("Exception", h.dir) THEN Ok(passed) ELSE h.dir

\* lines 264-274, check 3: low disk space and a failing disk_usage are warnings
CheckDiskSpace(h, passed) ==
    IF h.disk.kind = "ok" \/ Catches("Exception", h.disk) THEN Ok(passed) ELSE h.disk

\* lines 277-285, check 4: except ImportError
CheckPackages(h, passed) ==
    IF h.packages.kind = "ok" THEN Ok(passed)
    ELSE IF Catches("ImportError", h.packages) THEN Ok(FALSE)
    ELSE h.packages

\* lines 288-296, check 5: the ValueError raised at line 291 is caught at 294
CheckDates(today, passed) ==
    IF ReportMonth(today) = "" \/ YtdStartMonth(today) = ""
    THEN (IF Catches("Exception", Exc("ValueError")) THEN Ok(FALSE) ELSE Exc("ValueError"))
    ELSE Ok(passed)

\* lines 222-303: the value _run_health_checks returns, or what it raises
RunHealthChecksBody(h, today) ==
    LET c1 == CheckApi(h, TRUE)
        c2 == IF c1.kind = "raise" THEN c1 ELSE CheckOutputDir(h, c1.value)
        c3 == IF c2.kind = "raise" THEN c2 ELSE CheckDiskSpace(h, c2.value)
        c4 == IF c3.kind = "raise" THEN c3 ELSE CheckPackages(h, c3.value)
    IN  IF c4.kind = "raise" THEN c4 ELSE CheckDates(today, c4.value)

\* the variant in which the substituted result is the tables of the failed run
EmptyMonthlyData_Partial == data

\* lines 1258-1263: the result substituted for a monthly aggregation that raised
EmptyMonthlyData ==
    [project_stats |-> [total |-> 0, completed |-> 0, in_progress |-> 0, pending |-> 0],
     workflow_by_language |-> <<>>,
     user_statistics |-> <<>>,
     projects |-> <<>>]

\* the variant that lets the error of an aggregation through
AggregateExcept_Never(e) == FALSE

\* lines 1256 and 1268: except Exception
AggregateExcept(e) == Catches("Exception", e)

\* lines 1248-1255: the health checks, whose result is dropped, and the call
\* aggregate_monthly_data(self.report_month, self.report_month)
RunHealthChecks ==
    /\ gpc = "start"
    /\ all_passed' = RunHealthChecksBody(health, report_date)
    /\ IF all_passed'.kind = "raise"
       THEN /\ gpc' = "failed"
            /\ UNCHANGED <<start_month, end_month, apc>>
       ELSE /\ gpc' = "monthly"
            /\ start_month' = ReportMonth(report_date)
            /\ end_month' = ReportMonth(report_date)
            /\ apc' = "start"
    /\ UNCHANGED <<retryVars, fetchVars, api, report_date, projects, idx, stats_list,
                   step, acc, data, agg_outcome,
                   returned, health, monthly_data, ytd_data, excel_args,
                   saveVars>>

\* lines 1254-1267: the monthly aggregation has ended; then the call
\* aggregate_monthly_data(self.ytd_start_month, self.ytd_end_month)
MonthlyAggregated ==
    /\ gpc = "monthly"
    /\ apc \in {"done", "raised"}
    /\ returned' = Append(returned, agg_outcome)
    /\ IF agg_outcome.kind = "raise" /\ ~AggregateExcept(agg_outcome)
       THEN /\ gpc' = "failed"
            /\ UNCHANGED <<monthly_data, start_month, end_month, apc, agg_outcome>>
       ELSE /\ monthly_data' = IF agg_outcome.kind = "ok" THEN agg_outcome.value
                               ELSE EmptyMonthlyData
            /\ gpc' = "ytd"
            /\ start_month' = YtdStartMonth(report_date)
            /\ end_month' = ReportMonth(report_date)
            /\ apc' = "start"
            /\ agg_outcome' = None
    /\ UNCHANGED <<retryVars, fetchVars, api, report_date, projects, idx, stats_list,
                   step, acc, data,
                   health, all_passed, ytd_data, excel_args,
                   saveVars>>

\* lines 1274-1275: has_data
HasData(m, y) == m.workflow_by_language # <<>> \/ y.workflow_by_language # <<>>

\* the variant that gives up when there is nothing to report
AfterValidation_Abort(has_data) == IF has_data THEN "create" ELSE "failed"

\* lines 1277-1287: without data a warning is logged; either way the run goes
\* on to the creation of the report
AfterValidation(has_data) == "create"

\* lines 1266-1287: the year-to-date aggregation has ended
YtdAggregated ==
    /\ gpc = "ytd"
    /\ apc \in {"done", "raised"}
    /\ returned' = Append(returned, agg_outcome)
    /\ IF agg_outcome.kind = "raise" /\ ~AggregateExcept(agg_outcome)
       THEN /\ gpc' = "failed"
            /\ UNCHANGED ytd_data
       ELSE /\ ytd_data' = IF agg_outcome.kind = "ok" THEN agg_outcome.value
                           ELSE monthly_data
            /\ gpc' = AfterValidation(HasData(monthly_data, ytd_data'))
    /\ UNCHANGED <<retryVars, fetchVars, aggVars,
                   health, all_passed, monthly_data, excel_args,
                   saveVars>>

\* lines 1289-1293: self.create_excel_report(monthly_data, ytd_data, ...)
CreateExcelReport ==
    /\ gpc = "create"
    /\ excel_args' = [monthly_data |-> monthly_data, ytd_data |-> ytd_data]
    /\ gpc' = "created"
    /\ UNCHANGED <<retryVars, fetchVars, aggVars,
                   returned, health, all_passed, monthly_data, ytd_data,
                   saveVars>>

(***************************************************************************)
(* create_excel_report: the sheets, then the save with fallback locations  *)
(***************************************************************************)
\* Path.home(), Path.cwd() and tempfile.gettempdir() of the machine
HomeDir == <<"home", "martin">>
CwdDir  == <<"srv", "xtm">>
TempDir == <<"tmp">>

\* Path(output_path).name: the last component of a path
Name(path) == path[Len(path)]

\* lines 826, 837, 849, 862: the path each location saves to
SavePath(location, path) ==
    CASE location = "primary" -> path
      [] location = "desktop" -> HomeDir \o <<"Desktop", Name(path)>>
      [] location = "cwd"     -> CwdDir \o <<Name(path)>>
      [] location = "temp"    -> TempDir \o <<Name(path)>>

\* the variant that leaves the Desktop out
NextLocation_SkipDesktop(location) ==
    CASE location = "primary" -> "cwd"
      [] location = "desktop" -> "cwd"
      [] location = "cwd"     -> "temp"
      [] location = "temp"    -> "after"

\* lines 824-868: the block that follows the block of a location
NextLocation(location) ==
    CASE location = "primary" -> "desktop"
      [] location = "desktop" -> "cwd"
      [] location = "cwd"     -> "temp"
      [] location = "temp"    -> "after"

\* lines 830, 842, 854, 866: except Exception as e
SaveExcept(e) == Catches("Exception", e)

\* lines 807-818: the sheets of the workbook; a user statistics sheet is made
\* only for a truthy user_statistics
SheetTitles(m, y) ==
    <<"Monthly">>
    \o (IF m.user_statistics # <<>> THEN <<"User Statistics - Monthly">> ELSE <<>>)
    \o <<"Year-to-Date">>
    \o (IF y.user_statistics # <<>> THEN <<"User Statistics - YTD">> ELSE <<>>)

\* lines 800-822: the call is entered, the workbook is filled, the locals of
\* the save are set
BuildWorkbook ==
    /\ gpc = "created"
    /\ spc = "idle"
    /\ wb' = SheetTitles(excel_args.monthly_data, excel_args.ytd_data)
    /\ save_successful' = FALSE
    /\ last_error' = None
    /\ spc' = "primary"
    /\ UNCHANGED <<retryVars, fetchVars, aggVars, callerVars,
                   output_path, save_effects, saves, report_path>>

\* lines 824-868: the block of one location.  The path is computed and
\* wb.save is called with it; a success returns the path, an error that the
\* except clause catches is kept in last_error and the next block follows
TrySave(location) ==
    /\ IF location # "primary" /\ save_successful
       THEN /\ spc' = NextLocation(location)
            /\ UNCHANGED <<save_successful, last_error, saves, report_path>>
       ELSE LET effect == save_effects[location]
                path == SavePath(location, output_path)
            IN  /\ saves' = IF effect.at = "save" THEN Append(saves, path) ELSE saves
                /\ IF effect.result.kind = "ok"
                   THEN /\ save_successful' = TRUE
                        /\ report_path' = Ok(path)
                        /\ spc' = "returned"
                        /\ UNCHANGED last_error
                   ELSE IF SaveExcept(effect.result)
                   THEN /\ last_error' = effect.result
                        /\ spc' = NextLocation(location)
                        /\ UNCHANGED <<save_successful, report_path>>
                   ELSE /\ report_path' = effect.result
                        /\ spc' = "raised"
                        /\ UNCHANGED <<save_successful, last_error>>
    /\ UNCHANGED <<retryVars, fetchVars, aggVars, callerVars,
                   output_path, save_effects, wb>>

\* lines 824-832: try primary location
SavePrimary ==
    /\ spc = "primary"
    /\ TrySave("primary")

\* lines 834-844: try fallback location 1, the Desktop
SaveDesktop ==
    /\ spc = "desktop"
    /\ TrySave("desktop")

\* lines 846-856: try fallback location 2, the current working directory
SaveCwd ==
    /\ spc = "cwd"
    /\ TrySave("cwd")

\* lines 858-868: try fallback location 3, the temp directory
SaveTemp ==
    /\ spc = "temp"
    /\ TrySave("temp")

\* lines 870-872: if all save attempts failed, raise; a function that ends
\* without a return statement returns None
RaiseAllFailed ==
    /\ spc = "after"
    /\ IF ~save_successful
       THEN /\ report_path' = Exc("Exception")
            /\ spc' = "raised"
       ELSE /\ report_path' = Ok(None)
            /\ spc' = "returned"
    /\ UNCHANGED <<retryVars, fetchVars, aggVars, callerVars,
                   output_path, save_effects, wb, save_successful, last_error, saves>>

\* lines 1292-1298: the call has ended; its error is logged and raised again,
\* its value goes on to the e-mail
ExcelReportReturned ==
    /\ gpc = "created"
    /\ spc \in {"returned", "raised"}
    /\ gpc' = IF report_path.kind = "ok" THEN "email" ELSE "failed"
    /\ UNCHANGED <<retryVars, fetchVars, aggVars, saveVars,
                   returned, health, all_passed, monthly_data, ytd_data, excel_args>>

(***************************************************************************)
(* Inputs: the behaviours of a wrapped function                            *)
(***************************************************************************)
\* outcomes of one invocation of a wrapped function: what _make_request can do
\* (a success, a timeout, a connection error, an HTTP error status, the
\* ValueError of an unsupported method) and the other request errors
RetryOutcomes ==
    {MakeRequestBody(m, x) :
        m \in {"GET", "PUT"},
        x \in {NetTimeout, NetConnectionError, Response(200, JStr("Success")),
               Response(400, JNull), Response(429, JNull), Response(499, JNull),
               Response(500, JNull)}}
    \cup {Exc("RequestException"), Exc("HTTPError"), Exc("ConnectTimeout")}

\* the decorator's defaults (line 38) and a policy whose cap is reached early
RetryPolicies ==
    {[initial_delay |-> 1, backoff_factor |-> 2, max_delay |-> 60],
     [initial_delay |-> 2, backoff_factor |-> 2, max_delay |-> 3]}

\* create_excel_report has not been called
IdleSave ==
    /\ output_path = None
    /\ save_effects = None
    /\ wb = None
    /\ spc = "idle"
    /\ save_successful = FALSE
    /\ last_error = None
    /\ saves = <<>>
    /\ report_path = None

IdleCaller ==
    /\ returned = <<>>
    /\ gpc = "idle"
    /\ health = None
    /\ all_passed = None
    /\ monthly_data = None
    /\ ytd_data = None
    /\ excel_args = None
    /\ IdleSave

IdleFetch ==
    /\ caller = "wrapper"
    /\ excluded_users = <<>>
    /\ fetched = None

IdleAgg ==
    /\ api = None
    /\ report_date = 0
    /\ start_month = ""
    /\ end_month = ""
    /\ projects = None
    /\ idx = 0
    /\ stats_list = None
    /\ step = 0
    /\ acc = None
    /\ data = None
    /\ apc = "idle"
    /\ agg_outcome = None

\* lines 51-54: the wrapper is entered
WrapperEntered(the_script, the_policy) ==
    /\ script = the_script
    /\ policy = the_policy
    /\ attempt = 1
    /\ delay = the_policy.initial_delay
    /\ last_exception = None
    /\ calls = 0
    /\ sleeps = <<>>
    /\ pc = "call"
    /\ outcome = None

InitRetry ==
    /\ \E n \in 1..MaxAttempts, p \in RetryPolicies :
         \E the_script \in [1..n -> RetryOutcomes] :
            WrapperEntered(the_script, p @@ [max_attempts |-> n])
    /\ IdleFetch
    /\ IdleAgg
    /\ IdleCaller

NextRetry == Attempt \/ Backoff \/ RaiseLast

SpecRetry == InitRetry /\ [][NextRetry]_vars

\* lines 305-306: _make_request under its own decorator arguments, failing
\* on every attempt or answering after k failures
MakeRequestScripts ==
    {[i \in 1..MakeRequestPolicy.max_attempts |-> o] :
        o \in {Exc("Timeout"), Exc("ConnectionError"), HTTPError(503), HTTPError(429)}}
    \cup {[i \in 1..(k + 1) |-> IF i <= k THEN Exc("Timeout") ELSE x] :
            k \in 0..(MakeRequestPolicy.max_attempts - 1),
            x \in {Ok(JList(<<>>)), HTTPError(404), Exc("ValueError")}}

InitBackoff ==
    /\ \/ \E n \in 1..MaxAttempts, p \in RetryPolicies :
             \E the_script \in [1..n -> RetryOutcomes] :
                WrapperEntered(the_script, p @@ [max_attempts |-> n])
       \/ \E the_script \in MakeRequestScripts :
             WrapperEntered(the_script, MakeRequestPolicy)
    /\ IdleFetch
    /\ IdleAgg
    /\ IdleCaller

SpecBackoff == InitBackoff /\ [][NextRetry]_vars

(***************************************************************************)
(* Inputs: statistics payloads                                             *)
(***************************************************************************)
\* days since 1970-01-01 of the dates used below
Day ==
    [dec31 |-> 20088, jan1 |-> 20089, sep30 |-> 20361, oct1 |-> 20362,
     oct31 |-> 20392, nov1 |-> 20393, nov5 |-> 20397]

WordFieldSet == {WordFields[i] : i \in DOMAIN WordFields}

\* every field present, field i holding 2^(i-1): 2047 words in all
EveryField ==
    JDict([f \in WordFieldSet |->
              JNum(2 ^ ((CHOOSE i \in DOMAIN WordFields : WordFields[i] = f) - 1))])

\* leveragedWords 10, machineTranslationWords 5, the other fields 0
TenAndFive ==
    JDict([f \in WordFieldSet |->
              JNum(IF f = "leveragedWords" THEN 10
                   ELSE IF f = "machineTranslationWords" THEN 5 ELSE 0)])

\* one field present
NoMatch(n) == JDict([noMatchingWords |-> JNum(n)])

Job(date, words) == JDict([lastCompletionDate |-> JNum(date), sourceStatistics |-> words])
JobDated(date, words) == JDict([lastCompletionDate |-> date, sourceStatistics |-> words])
JobUndated(words) == JDict([sourceStatistics |-> words])
StepStat(name, jobs) == JDict([workflowStepName |-> JStr(name), jobsStatistics |-> JList(jobs)])
UserStat(name, steps) == JDict([username |-> JStr(name), stepsStatistics |-> JList(steps)])
LangStat(code, users) == JDict([targetLanguage |-> JStr(code), usersStatistics |-> JList(users)])

\* the scenario of the specification: one job, 10 + 5 words, step correct3, fr_FR
StatsCorrect3 ==
    <<LangStat("fr_FR", <<UserStat("alice",
        <<StepStat("correct3", <<Job(Day.oct1, TenAndFive)>>)>>)>>)>>

\* two numbered passes of one step; the second has words in the year only
StatsTwoPasses ==
    <<LangStat("fr_FR", <<UserStat("alice",
        <<StepStat("translate1", <<Job(Day.oct31, EveryField)>>),
          StepStat("translate7", <<Job(Day.sep30, NoMatch(3)), Job(Day.nov1, NoMatch(100))>>)>>)>>)>>

\* two languages; a job on the first day of the year and a job without a date
StatsTwoLanguages ==
    <<LangStat("fr_FR", <<UserStat("bob",
        <<StepStat("translate1", <<Job(Day.jan1, NoMatch(5))>>)>>)>>),
      LangStat("de_DE", <<UserStat("bob",
        <<StepStat("translate2", <<Job(Day.oct1, NoMatch(7)), JobUndated(EveryField)>>)>>)>>)>>

\* an excluded user (in another letter case) beside a user who is kept, and a
\* step whose name is digits only
StatsWithExcluded ==
    <<LangStat("fr_FR",
        <<UserStat("LEOADMIN", <<StepStat("translate1", <<Job(Day.oct1, EveryField)>>)>>),
          UserStat("alice", <<StepStat("12", <<Job(Day.oct31, NoMatch(9))>>)>>)>>)>>

\* a language whose only user is excluded, then an unknown locale code with a
\* user whose name merely starts like an excluded one
StatsDroppedLanguage ==
    <<LangStat("de_DE",
        <<UserStat("martinadmin", <<StepStat("review", <<Job(Day.oct1, NoMatch(13))>>)>>)>>),
      LangStat("xx_XX",
        <<UserStat("LeoAdmin2",
            <<StepStat("review", <<Job(Day.oct1, NoMatch(11)), Job(Day.dec31, NoMatch(17))>>)>>)>>)>>

\* nothing completed in the year: jobs before and after it, and jobs whose
\* completion date is null, 0 or a string
StatsNothingInYear ==
    <<LangStat("fr_FR", <<UserStat("alice",
        <<StepStat("translate1",
            <<Job(Day.dec31, EveryField), Job(Day.nov1, TenAndFive),
              JobDated(JNull, NoMatch(19)), JobDated(JNum(0), NoMatch(23)),
              JobDated(JStr("2025-10-01"), NoMatch(29))>>)>>)>>)>>

\* optional fields left out at every level
StatsSparse ==
    <<JDict([usersStatistics |-> JList(
        <<JDict([stepsStatistics |-> JList(
            <<JDict([jobsStatistics |-> JList(
                <<Job(Day.oct1, NoMatch(31)),
                  JDict([lastCompletionDate |-> JNum(Day.oct1)])>>)]),
              JDict([workflowStepName |-> JStr("translate1")])>>)]),
          JDict([username |-> JStr("bob")])>>)]),
      JDict([targetLanguage |-> JStr("fr_FR")])>>

\* every user is excluded
StatsAllExcluded ==
    <<LangStat("fr_FR",
        <<UserStat("leoadmin", <<StepStat("translate1", <<Job(Day.oct1, TenAndFive)>>)>>),
          UserStat("Robert.Sena@ChurchOfJesusChrist.org",
                   <<StepStat("correct1", <<Job(Day.oct1, NoMatch(37))>>)>>)>>)>>

\* a username that is null: .lower() raises inside get_project_statistics
StatsNullUsername ==
    <<LangStat("fr_FR",
        <<UserStat("alice", <<StepStat("translate1", <<Job(Day.oct1, NoMatch(41))>>)>>),
          JDict([username |-> JNull])>>)>>

(***************************************************************************)
(* get_projects and get_project_statistics over a server that answers as   *)
(* a script says                                                           *)
(***************************************************************************)
\* exchanges after which _make_request is retried
TransientExchanges ==
    {NetTimeout, Response(503, JNull), BadJsonResponse(200, "RequestsJSONDecodeError")}

\* bodies a 200 answer can carry: lists (well formed or not) and other JSON
FetchPayloads ==
    {JList(<<>>), JList(StatsWithExcluded), JList(StatsDroppedLanguage),
     JList(StatsAllExcluded), JList(StatsNullUsername), JList(<<JNull>>),
     JDict([error |-> JStr("maintenance")]), JNull}

\* exchanges that end the wrapper at once
FinalExchanges ==
    {Response(200, body) : body \in FetchPayloads}
    \cup {EmptyResponse(204), BadJsonResponse(200, "JSONDecodeError"),
          Response(404, JNull)}

\* k transient failures, then (if the attempts allow it) a final exchange
FetchScripts ==
    {[i \in 1..MakeRequestPolicy.max_attempts |-> MakeRequestBody("GET", t)] :
        t \in TransientExchanges}
    \cup {[i \in 1..(k + 1) |-> MakeRequestBody("GET", IF i <= k THEN t ELSE x)] :
            k \in 0..(MakeRequestPolicy.max_attempts - 1),
            t \in TransientExchanges, x \in FinalExchanges}

\* the excluded_users argument: the default of line 366, none, another list
ExcludedLists == {DefaultExcluded, <<>>, <<"Alice">>}

InitFetch ==
    /\ \E the_script \in FetchScripts : WrapperEntered(the_script, MakeRequestPolicy)
    /\ \/ caller = "get_projects" /\ excluded_users = <<>>
       \/ caller = "get_project_statistics" /\ excluded_users \in ExcludedLists
    /\ fetched = None
    /\ IdleAgg
    /\ IdleCaller

NextFetch == Attempt \/ Backoff \/ RaiseLast \/ FetcherReturns

SpecFetch == InitFetch /\ [][NextFetch]_vars

(***************************************************************************)
(* aggregate_monthly_data over an API that answers as a table says         *)
(***************************************************************************)
MaxProjects == 2

\* a project of the listing, without its id, and the answer of the API to
\* the statistics request for it
ProjectCase(fields, id_kind, statistics) ==
    [fields |-> fields, id_kind |-> id_kind, statistics |-> statistics]

\* test_graceful_degradation, lines 95-98: what the mock put in the place of
\* get_project_statistics does for project 2
MockRaises == Exc("Exception") @@ [mocked |-> TRUE]

ProjectCases ==
    {ProjectCase([name |-> JStr("Test Project 2")], "num", MockRaises),
     ProjectCase([name |-> JStr("Bible"), status |-> JStr("FINISHED")], "num",
                 Ok(JList(StatsCorrect3))),
     ProjectCase([name |-> JStr("Hymns"), status |-> JStr("IN_PROGRESS")], "num",
                 Ok(JList(StatsTwoPasses))),
     ProjectCase([name |-> JStr("Manual"), status |-> JStr("STARTED")], "num",
                 Ok(JList(StatsTwoLanguages))),
     ProjectCase([name |-> JStr("Site")], "num",
                 Ok(JList(StatsWithExcluded))),
     ProjectCase([name |-> JStr("Guide"), status |-> JStr("ARCHIVED")], "num",
                 Ok(JList(StatsDroppedLanguage))),
     ProjectCase([name |-> JStr("Old"), status |-> JStr("FINISHED")], "num",
                 Ok(JList(StatsNothingInYear))),
     ProjectCase([status |-> JStr("FINISHED")], "num",
                 Ok(JList(StatsSparse))),
     ProjectCase([name |-> JStr("Gone"), status |-> JStr("FINISHED")], "num",
                 HTTPError(404)),
     ProjectCase([name |-> JStr("Null"), status |-> JStr("FINISHED")], "null",
                 Ok(JList(StatsCorrect3))),
     ProjectCase([name |-> JStr("Anonymous"), status |-> JStr("FINISHED")], "absent",
                 Ok(JList(StatsCorrect3)))}

\* the project dictionary of case c at position i of the listing; ids are the
\* positions
ProjectOf(c, i) ==
    JDict(CASE c.id_kind = "num"    -> c.fields @@ [id |-> JNum(i)]
            [] c.id_kind = "null"   -> c.fields @@ [id |-> JNull]
            [] c.id_kind = "zero"   -> c.fields @@ [id |-> JNum(0)]
            [] c.id_kind = "absent" -> c.fields)

\* the API serving the projects of cases
ApiOf(cases) ==
    [projects   |-> Ok(JList([i \in DOMAIN cases |-> ProjectOf(cases[i], i)])),
     statistics |-> [i \in DOMAIN cases |-> cases[i].statistics]]

\* the listing request itself fails for good, or answers something that is
\* not a list
ListingFailures == {HTTPError(503), Exc("Timeout"), Exc("JSONDecodeError"), Ok(JDict(<<>>))}

\* lines 1253-1263 (generate_report): the monthly and the year-to-date window
Windows(today) ==
    {[lo |-> ReportMonth(today), hi |-> ReportMonth(today)],
     [lo |-> YtdStartMonth(today), hi |-> ReportMonth(today)]}

ReportDates == {Day.nov5}

IdleRetry ==
    /\ script = <<>>
    /\ policy = MakeRequestPolicy
    /\ attempt = 0
    /\ delay = 0
    /\ last_exception = None
    /\ calls = 0
    /\ sleeps = <<>>
    /\ pc = "idle"
    /\ outcome = None

\* aggregate_monthly_data(start_month, end_month) is entered
AggregateEntered(the_api, today, w) ==
    /\ api = the_api
    /\ report_date = today
    /\ start_month = w.lo
    /\ end_month = w.hi
    /\ projects = None
    /\ idx = 0
    /\ stats_list = None
    /\ step = 0
    /\ acc = None
    /\ data = None
    /\ apc = "start"
    /\ agg_outcome = None

InitAgg ==
    /\ IdleRetry
    /\ IdleCaller
    /\ caller = "aggregate_monthly_data"
    /\ excluded_users = DefaultExcluded
    /\ fetched = None
    /\ \E today \in ReportDates : \E w \in Windows(today) :
          \/ \E n \in 0..MaxProjects : \E cases \in [1..n -> ProjectCases] :
                AggregateEntered(ApiOf(cases), today, w)
          \/ \E failure \in ListingFailures :
                AggregateEntered([projects |-> failure, statistics |-> <<>>], today, w)

NextAgg ==
    \/ GetAllProjects
    \/ SkipProject
    \/ FetchStatistics
    \/ ProcessStep
    \/ FinishProject
    \/ ReturnData

SpecAgg == InitAgg /\ [][NextAgg]_vars

(***************************************************************************)
(* aggregate_monthly_data over listings and statistics of unusual shape:   *)
(* ids that are 0, null or absent, fields left out, names of digits only   *)
(***************************************************************************)
ShapeCases ==
    {ProjectCase([name |-> JStr("Site")], "num",
                 Ok(JList(StatsWithExcluded))),
     ProjectCase([name |-> JStr("Hymns"), status |-> JStr("IN_PROGRESS")], "num",
                 Ok(JList(StatsTwoPasses))),
     ProjectCase([name |-> JStr("Manual"), status |-> JStr("STARTED")], "num",
                 Ok(JList(StatsTwoLanguages))),
     ProjectCase([status |-> JStr("FINISHED")], "num",
                 Ok(JList(StatsSparse))),
     ProjectCase([name |-> JStr("Gone"), status |-> JStr("FINISHED")], "num",
                 HTTPError(404)),
     ProjectCase([name |-> JStr("Zero"), status |-> JStr("FINISHED")], "zero",
                 Ok(JList(StatsCorrect3))),
     ProjectCase([name |-> JStr("Invalid Project")], "null",
                 Ok(JList(StatsCorrect3))),
     ProjectCase([name |-> JStr("Anonymous"), status |-> JStr("FINISHED")], "absent",
                 Ok(JList(StatsCorrect3)))}

InitShapes ==
    /\ IdleRetry
    /\ IdleCaller
    /\ caller = "aggregate_monthly_data"
    /\ excluded_users = DefaultExcluded
    /\ fetched = None
    /\ \E today \in ReportDates : \E w \in Windows(today) :
          \E n \in 0..MaxProjects : \E cases \in [1..n -> ShapeCases] :
             AggregateEntered(ApiOf(cases), today, w)

SpecShapes == InitShapes /\ [][NextAgg]_vars

(***************************************************************************)
(* aggregate_monthly_data called a second time on the same object, with    *)
(* the same window, while the API answers as before                        *)
(***************************************************************************)
\* the call has ended and its caller calls again; the locals of the ended call
\* are kept as they were left until the new call assigns them
AggregateAgain ==
    /\ apc \in {"done", "raised"}
    /\ returned = <<>>
    /\ returned' = <<agg_outcome>>
    /\ apc' = "start"
    /\ agg_outcome' = None
    /\ UNCHANGED <<retryVars, fetchVars, api, report_date, start_month, end_month,
                   projects, idx, stats_list, step, acc, data,
                   gpc, health, all_passed, monthly_data, ytd_data, excel_args,
                   saveVars>>

NextTwice == NextAgg \/ AggregateAgain

SpecTwice == InitAgg /\ [][NextTwice]_vars

(***************************************************************************)
(* generate_report: the health checks, the two aggregations and the call   *)
(* of create_excel_report, over statistics some of which are malformed     *)
(***************************************************************************)
\* a job of January whose word count is null follows a sound job of October:
\* the monthly window skips it at line 502, the year-to-date window adds it
StatsBrokenInYear ==
    <<LangStat("fr_FR", <<UserStat("alice",
        <<StepStat("translate1", <<Job(Day.oct1, NoMatch(43))>>),
          StepStat("review", <<Job(Day.jan1, JDict([noMatchingWords |-> JNull]))>>)>>)>>)>>

\* the second user's stepsStatistics is null; the first user's work is sound
StatsNullSteps ==
    <<LangStat("de_DE",
        <<UserStat("bob", <<StepStat("correct1", <<Job(Day.oct31, NoMatch(7))>>)>>),
          JDict([username |-> JStr("carol"), stepsStatistics |-> JNull])>>)>>

ReportCases ==
    {ProjectCase([name |-> JStr("Bible"), status |-> JStr("FINISHED")], "num",
                 Ok(JList(StatsCorrect3))),
     ProjectCase([name |-> JStr("Hymns"), status |-> JStr("IN_PROGRESS")], "num",
                 Ok(JList(StatsTwoPasses))),
     ProjectCase([name |-> JStr("Tracts"), status |-> JStr("STARTED")], "num",
                 Ok(JList(StatsBrokenInYear))),
     ProjectCase([name |-> JStr("Atlas"), status |-> JStr("FINISHED")], "num",
                 Ok(JList(StatsNullSteps))),
     ProjectCase([name |-> JStr("Gone"), status |-> JStr("FINISHED")], "num",
                 Exc("ConnectionError")),
     ProjectCase([name |-> JStr("Invalid Project")], "null",
                 Ok(JList(StatsCorrect3)))}

\* what the five checks of _run_health_checks meet: the outcome of the request
\* of check 1, of the directory probe, of shutil.disk_usage (free MB) and of the
\* imports
HealthCase(api_outcome, dir_outcome, disk_outcome, packages_outcome) ==
    [api |-> api_outcome, dir |-> dir_outcome, disk |-> disk_outcome,
     packages |-> packages_outcome]

HealthCases ==
    {HealthCase(Ok(JList(<<>>)), Ok("writable"), Ok(2048), Ok("imported")),
     HealthCase(Exc("Timeout"), Ok("writable"), Ok(2048), Ok("imported")),
     HealthCase(Exc("JSONDecodeError"), Ok("not writable"), Ok(50), Ok("imported")),
     HealthCase(Ok(JList(<<>>)), Exc("PermissionError"), Exc("OSError"), Ok("imported")),
     HealthCase(Ok(JList(<<>>)), Ok("writable"), Ok(2048), Exc("ModuleNotFoundError")),
     HealthCase(HTTPError(503), Exc("PermissionError"), Exc("OSError"),
                Exc("ImportError"))}

\* generate_report is entered on a generator constructed on day today
ReportEntered(the_api, today, h) ==
    /\ api = the_api
    /\ report_date = today
    /\ start_month = ""
    /\ end_month = ""
    /\ projects = None
    /\ idx = 0
    /\ stats_list = None
    /\ step = 0
    /\ acc = None
    /\ data = None
    /\ apc = "idle"
    /\ agg_outcome = None
    /\ returned = <<>>
    /\ gpc = "start"
    /\ health = h
    /\ all_passed = None
    /\ monthly_data = None
    /\ ytd_data = None
    /\ excel_args = None
    /\ IdleSave

InitReport ==
    /\ IdleRetry
    /\ caller = "aggregate_monthly_data"
    /\ excluded_users = DefaultExcluded
    /\ fetched = None
    /\ \E today \in ReportDates : \E h \in HealthCases :
          \/ \E n \in 0..MaxProjects : \E cases \in [1..n -> ReportCases] :
                ReportEntered(ApiOf(cases), today, h)
          \/ \E failure \in ListingFailures :
                ReportEntered([projects |-> failure, statistics |-> <<>>], today, h)

NextReport ==
    \/ RunHealthChecks
    \/ NextAgg
    \/ MonthlyAggregated
    \/ YtdAggregated
    \/ CreateExcelReport

SpecReport == InitReport /\ [][NextReport]_vars

(***************************************************************************)
(* create_excel_report on a file system whose locations fail or not        *)
(***************************************************************************)
\* what the block of a location can end in: wb.save succeeds or raises an
\* OSError, or the path of the location cannot be computed (no home
\* directory, a working directory that was removed, no usable temp directory)
SaveEffects(location) ==
    {[at |-> "save", result |-> Ok(None)],
     [at |-> "save", result |-> Exc("PermissionError")],
     [at |-> "save", result |-> Exc("FileNotFoundError")]}
    \cup (IF location = "desktop" THEN {[at |-> "path", result |-> Exc("RuntimeError")]}
          ELSE IF location \in {"cwd", "temp"}
          THEN {[at |-> "path", result |-> Exc("FileNotFoundError")]}
          ELSE {})

\* lines 824, 834, 846, 858: the locations the code knows
Locations == {"primary", "desktop", "cwd", "temp"}

\* lines 1281-1283: onedrive_path / output_filename, for an output directory
\* of its own and for one that is the Desktop
OutputPaths ==
    {<<"mnt", "onedrive", "XTM_Monthly_Report_2025-10_20251105.xlsx">>,
     HomeDir \o <<"Desktop", "XTM_Monthly_Report_2025-10_20251105.xlsx">>}

\* the aggregates handed to create_excel_report: one without and one with
\* user statistics
SaveData ==
    {EmptyMonthlyData,
     [EmptyMonthlyData EXCEPT
        !.user_statistics = AddUserWords(<<>>, "ana", "Translate", "French", 120)]}

InitSave ==
    /\ IdleRetry
    /\ IdleFetch
    /\ IdleAgg
    /\ returned = <<>>
    /\ gpc = "create"
    /\ health = None
    /\ all_passed = None
    /\ monthly_data \in SaveData
    /\ ytd_data \in SaveData
    /\ excel_args = None
    /\ output_path \in OutputPaths
    /\ save_effects \in {f \in [Locations -> UNION {SaveEffects(l) : l \in Locations}] :
                            \A l \in Locations : f[l] \in SaveEffects(l)}
    /\ wb = None
    /\ spc = "idle"
    /\ save_successful = FALSE
    /\ last_error = None
    /\ saves = <<>>
    /\ report_path = None

NextSave ==
    \/ CreateExcelReport
    \/ BuildWorkbook
    \/ SavePrimary
    \/ SaveDesktop
    \/ SaveCwd
    \/ SaveTemp
    \/ RaiseAllFailed
    \/ ExcelReportReturned

SpecSave == InitSave /\ [][NextSave]_vars

(***************************************************************************)
(* Properties of the retry wrapper                                         *)
(***************************************************************************)
\* the failure kinds as the specification names them
IsTransientFailure(o) ==
    /\ o.kind = "raise"
    /\ \/ o.class \in {"Timeout", "ConnectionError", "ConnectTimeout"}
       \/ /\ o.class = "HTTPError"
          /\ o.has_response
          /\ o.status_code = 429 \/ (500 <= o.status_code /\ o.status_code <= 599)

IsPermanentFailure(o) ==
    /\ o.kind = "raise"
    /\ o.class = "HTTPError"
    /\ o.has_response
    /\ o.status_code \in 400..499 \ {429}

IsNonRequestError(o) ==
    /\ o.kind = "raise"
    /\ o.class \notin {"Timeout", "ConnectionError", "ConnectTimeout", "HTTPError",
                        "RequestException"}

WrapperEnded == pc \in {"returned", "raised"}

\* C1: when the wrapped function raises a transient error on its first k
\* invocations (k < max_attempts) and returns a value on invocation k+1, the
\* wrapper returns that value and the function was invoked exactly k+1 times.
C1_ReturnsFirstSuccess ==
    \A k \in 0..MaxAttempts :
        ( /\ WrapperEnded
          /\ k < policy.max_attempts
          /\ k + 1 \in DOMAIN script
          /\ \A i \in 1..k : IsTransientFailure(script[i])
          /\ script[k + 1].kind = "ok" )
        => /\ pc = "returned"
           /\ outcome.kind = "ok"
           /\ outcome.value = script[k + 1].value
           /\ outcome.at = k + 1
           /\ calls = k + 1

\* the scenario of test_retry_decorator: two failures, success on the third call
C1_Witness ==
    /\ pc = "returned"
    /\ policy.max_attempts = 3
    /\ calls = 3
    /\ IsTransientFailure(script[1])
    /\ IsTransientFailure(script[2])
    /\ outcome.at = 3

\* C2: an HTTP error with a 4xx status other than 429 is re-raised at once: it
\* is the error the wrapper ends with, the function is not invoked again and
\* no sleep follows it.
C2_PermanentRaisedAtOnce ==
    \A k \in 1..MaxAttempts :
        (pc # "idle" /\ k <= calls /\ k \in DOMAIN script /\ IsPermanentFailure(script[k]))
        => /\ pc = "raised"
           /\ outcome = Func(script, k)
           /\ calls = k
           /\ Len(sleeps) = k - 1

\* a permanent error on attempt 1 with attempts to spare: one invocation, no sleep
C2_Witness ==
    /\ pc = "raised"
    /\ policy.max_attempts >= 2
    /\ calls = 1
    /\ IsPermanentFailure(script[1])
    /\ outcome = Func(script, 1)
    /\ sleeps = <<>>

\* C3: when every one of the max_attempts invocations raises a transient
\* error, the function is invoked exactly max_attempts times and the wrapper
\* fails with the error of the last invocation.
C3_ExhaustedRaisesLast ==
    ( /\ WrapperEnded
      /\ \A i \in 1..policy.max_attempts :
            i \in DOMAIN script /\ IsTransientFailure(script[i]) )
    => /\ pc = "raised"
       /\ calls = policy.max_attempts
       /\ outcome = Func(script, policy.max_attempts)

\* three transient failures of different kinds, the last one raised
C3_Witness ==
    /\ pc = "raised"
    /\ policy.max_attempts = 3
    /\ calls = 3
    /\ \A i \in 1..3 : IsTransientFailure(script[i])
    /\ script[1] # script[3]
    /\ outcome = Func(script, 3)

\* C4: the classification is fixed by the failure kind: after a 4xx other than
\* 429 the wrapper has ended and no further attempt is made; after a timeout,
\* a connection error, a 5xx or a 429 the wrapper has not ended while
\* attempts remain, and goes on to the next attempt.
C4_Classification ==
    \A k \in 1..MaxAttempts :
        (pc # "idle" /\ k <= calls /\ k \in DOMAIN script)
        => /\ IsPermanentFailure(script[k]) => (WrapperEnded /\ calls = k)
           /\ (IsTransientFailure(script[k]) /\ k < policy.max_attempts)
                 => \/ calls > k
                    \/ pc = "backoff" /\ attempt = k
                    \/ pc = "call" /\ attempt = k + 1

\* a 429 was retried and the 4xx that followed it was not
C4_Witness ==
    /\ WrapperEnded
    /\ policy.max_attempts = 3
    /\ calls = 2
    /\ script[1] = HTTPError(429)
    /\ IsPermanentFailure(script[2])

\* C5: an error that is not a request error (the ValueError of _make_request
\* for an unsupported method) is never retried: it is propagated on the
\* attempt where it occurs, with no sleep and no invocation after it.
C5_OtherErrorsPropagate ==
    \A k \in 1..MaxAttempts :
        (pc # "idle" /\ k <= calls /\ k \in DOMAIN script /\ IsNonRequestError(script[k]))
        => /\ pc = "raised"
           /\ outcome = Func(script, k)
           /\ calls = k
           /\ Len(sleeps) = k - 1

\* the unsupported-method ValueError on the second attempt, after a timeout
C5_Witness ==
    /\ pc = "raised"
    /\ policy.max_attempts = 3
    /\ calls = 2
    /\ script[1] = Exc("Timeout")
    /\ script[2] = MakeRequestBody("PUT", NetTimeout)
    /\ outcome = Func(script, 2)

(***************************************************************************)
(* Properties of the fetchers                                              *)
(***************************************************************************)
\* C6: get_projects and get_project_statistics never raise: whatever the
\* request did they return a list, and the empty list when the request ended
\* in an exception or its payload is not a list.
C6_FetchersReturnLists ==
    fetched # None =>
        /\ fetched.kind = "ok"
        /\ IsList(fetched.value)
        /\ (outcome.kind = "raise" \/ ~IsList(outcome.value)) => fetched.value = JList(<<>>)

\* get_project_statistics has answered [] after the request failed on every
\* one of its five attempts
C6_Witness ==
    /\ caller = "get_project_statistics"
    /\ fetched = Ok(JList(<<>>))
    /\ outcome.kind = "raise"
    /\ calls = MakeRequestPolicy.max_attempts

(***************************************************************************)
(* Properties of the exclusion filter                                      *)
(***************************************************************************)
\* two characters that are the same letter, whatever their case
SameLetter(c, d) ==
    \/ c = d
    \/ \E k \in 1..Len(UpperCase) :
          {c, d} = {CharAt(UpperCase, k), CharAt(LowerCase, k)}

EqIgnoreCase(a, b) ==
    /\ Len(a) = Len(b)
    /\ \A i \in 1..Len(a) : SameLetter(CharAt(a, i), CharAt(b, i))

IsExcludedName(username) ==
    \E i \in DOMAIN DefaultExcluded : EqIgnoreCase(username, DefaultExcluded[i])

\* a statistics answer in the shape of the data model: a list of language
\* entries whose users all carry a string username
WellFormedStatistics(r) ==
    /\ r.kind = "ok"
    /\ IsList(r.value)
    /\ \A i \in DOMAIN r.value.items : ~FilterRaises(r.value.items[i])

UsersOf(lang_stats) == DictGet(lang_stats, "usersStatistics", JList(<<>>)).items

\* what the exclusion law asks of the answer raw: per language entry the users
\* that are not excluded, unchanged and in order, and no entry without users
ExpectedStatistics(raw) ==
    LET kept(lang_stats) ==
            SelectSeq(UsersOf(lang_stats),
                      LAMBDA user : ~IsExcludedName(DictGet(user, "username", JStr("")).s))
        entries == [i \in DOMAIN raw |->
                      JDict([k \in {"usersStatistics"} |-> JList(kept(raw[i]))]
                            @@ raw[i].fields)]
    IN  SelectSeq(entries, LAMBDA lang_stats : UsersOf(lang_stats) # <<>>)

\* C7: get_project_statistics removes exactly the users whose username equals
\* an excluded name ignoring case, keeps the others unchanged and in order and
\* drops the language entries left without users; no excluded username has
\* an entry in user_statistics of aggregate_monthly_data.
C7_ExcludedUsersRemoved ==
    /\ apc = "done" =>
          \A i \in DOMAIN api.statistics :
             WellFormedStatistics(api.statistics[i]) =>
                GetProjectStatistics(api.statistics[i], DefaultExcluded)
                    = Ok(JList(ExpectedStatistics(api.statistics[i].value.items)))
    /\ apc = "steps" /\ WellFormedStatistics(api.statistics[idx]) =>
          stats_list = JList(ExpectedStatistics(api.statistics[idx].value.items))
    /\ data # None =>
          \A key \in DOMAIN data.user_statistics :
             ~IsExcludedName(data.user_statistics[key].username)

\* the run is over; a project had an excluded user (written in another case)
\* with words in the window beside a user who was kept and counted
C7_Witness ==
    /\ apc = "done"
    /\ \E i \in DOMAIN api.statistics :
          /\ api.statistics[i] = Ok(JList(StatsWithExcluded))
          /\ HasId(projects.items[i])
    /\ UserLangKey("alice", "French") \in DOMAIN data.user_statistics
    /\ UserLangKey("LEOADMIN", "French") \notin DOMAIN data.user_statistics

(***************************************************************************)
(* Properties of the aggregation: the jobs of an API, one by one           *)
(***************************************************************************)
Items(d, key) == DictGet(d, key, JList(<<>>)).items

\* the projects whose statistics request answers a list
Answered(a) ==
    {i \in DOMAIN a.statistics :
        a.statistics[i].kind = "ok" /\ IsList(a.statistics[i].value)}

LangAt(a, p) == a.statistics[p.i].value.items[p.l]
UserAt(a, p) == Items(LangAt(a, p), "usersStatistics")[p.u]
StepAt(a, p) == Items(UserAt(a, p), "stepsStatistics")[p.s]
JobAt(a, p)  == Items(StepAt(a, p), "jobsStatistics")[p.j]

\* the positions of the steps of a: project i, language entry l, user u, step s
StepPaths(a) ==
    UNION {UNION {UNION {
        {[i |-> i, l |-> l, u |-> u, s |-> s] :
            s \in DOMAIN Items(Items(a.statistics[i].value.items[l], "usersStatistics")[u],
                               "stepsStatistics")} :
        u \in DOMAIN Items(a.statistics[i].value.items[l], "usersStatistics")} :
        l \in DOMAIN a.statistics[i].value.items} :
        i \in Answered(a)}

\* the positions of the jobs of a: job j of the step at i, l, u, s
JobPaths(a) ==
    UNION {{q @@ [j |-> j] : j \in DOMAIN Items(StepAt(a, q), "jobsStatistics")} :
           q \in StepPaths(a)}

\* the API a without the job at p
WithoutJob(a, p) ==
    [a EXCEPT !.statistics[p.i].value.items[p.l].fields.usersStatistics.items[p.u]
                 .fields.stepsStatistics.items[p.s].fields.jobsStatistics.items =
                    SubSeq(@, 1, p.j - 1) \o SubSeq(@, p.j + 1, Len(@))]

\* "YYYY-MM" as a number of months
DigitValue(c) == (CHOOSE k \in 1..Len(Digits) : CharAt(Digits, k) = c) - 1
YearOf(month)  ==
    ((DigitValue(CharAt(month, 1)) * 10 + DigitValue(CharAt(month, 2))) * 10
        + DigitValue(CharAt(month, 3))) * 10 + DigitValue(CharAt(month, 4))
MonthOf(month) == DigitValue(CharAt(month, 6)) * 10 + DigitValue(CharAt(month, 7))
MonthNumber(month) == YearOf(month) * 12 + MonthOf(month)

\* the job has a completion timestamp
HasTimestamp(job_stat) ==
    LET t == DictGet(job_stat, "lastCompletionDate", JNull)
    IN  IsNum(t) /\ t.n # 0

\* the job has a completion timestamp and its month is in lo..hi, both included
Qualifies(job_stat, lo, hi) ==
    /\ HasTimestamp(job_stat)
    /\ LET dt == CivilFromDays(job_stat.fields.lastCompletionDate.n)
           m == dt.year * 12 + dt.month
       IN  MonthNumber(lo) <= m /\ m <= MonthNumber(hi)

\* the word totals of an aggregate
Totals(d) ==
    [words_done  |-> [k \in DOMAIN d.workflow_by_language |->
                        d.workflow_by_language[k].words_done],
     step_words  |-> [k \in DOMAIN d.user_statistics |->
                        d.user_statistics[k].workflow_steps],
     total_words |-> [n \in DOMAIN d.projects |->
                        <<d.projects[n].id, d.projects[n].total_words>>]]

\* C8: a job without a completion timestamp, or completed in a month before
\* start_month or after end_month, adds nothing: words_done, the users' step
\* words and the projects' total_words are those of the same run without it.
C8_OutsideJobsAddNothing ==
    apc = "done" =>
        \A p \in JobPaths(api) :
            ~Qualifies(JobAt(api, p), start_month, end_month) =>
                Totals(data)
                    = Totals(AggregateMonthlyData(WithoutJob(api, p),
                                                  start_month, end_month).value)

\* a run over the month alone ended with words counted, although the API
\* holds a job of the month before, a job of the month after and a job
\* without a date in projects that were fetched
C8_Witness ==
    /\ apc = "done"
    /\ start_month = end_month
    /\ data.workflow_by_language # <<>>
    /\ \E p, q, r \in JobPaths(api) :
          /\ HasId(projects.items[p.i]) /\ HasId(projects.items[q.i])
          /\ HasId(projects.items[r.i])
          /\ DictGet(JobAt(api, p), "lastCompletionDate", JNull) = JNum(Day.sep30)
          /\ DictGet(JobAt(api, q), "lastCompletionDate", JNull) = JNum(Day.nov1)
          /\ "lastCompletionDate" \notin DOMAIN JobAt(api, r).fields
          /\ JobWords(JobAt(api, p)) > 0
          /\ JobWords(JobAt(api, q)) > 0
          /\ JobWords(JobAt(api, r)) > 0

(***************************************************************************)
(* Properties of the aggregation: the sum law and the canonical steps      *)
(***************************************************************************)
ElevenBuckets ==
    {"iceMatchWords", "leveragedWords", "repeatsWords", "machineTranslationWords",
     "highFuzzyMatchWords", "mediumFuzzyMatchWords", "lowFuzzyMatchWords",
     "highFuzzyRepeatsWords", "mediumFuzzyRepeatsWords", "lowFuzzyRepeatsWords",
     "noMatchingWords"}

\* the sum of the buckets named in names that the job carries
RECURSIVE BucketSum(_, _)
BucketSum(job_stat, names) ==
    IF names = {} THEN 0
    ELSE LET name == CHOOSE x \in names : TRUE
             counts == DictGet(job_stat, "sourceStatistics", JDict(<<>>))
         IN  DictGet(counts, name, JNum(0)).n + BucketSum(job_stat, names \ {name})

\* the words of the jobs of a at the positions in paths
RECURSIVE WordsAt(_, _)
WordsAt(a, paths) ==
    IF paths = {} THEN 0
    ELSE LET p == CHOOSE x \in paths : TRUE
         IN  BucketSum(JobAt(a, p), ElevenBuckets) + WordsAt(a, paths \ {p})

DigitChars == {"0", "1", "2", "3", "4", "5", "6", "7", "8", "9"}

NoDigits(name) == \A n \in 1..Len(name) : CharAt(name, n) \notin DigitChars

\* canonical is raw with its digit characters left out
RECURSIVE StripsTo(_, _)
StripsTo(raw, canonical) ==
    IF raw = "" THEN canonical = ""
    ELSE IF CharAt(raw, 1) \in DigitChars THEN StripsTo(Tail(raw), canonical)
    ELSE /\ canonical # ""
         /\ CharAt(raw, 1) = CharAt(canonical, 1)
         /\ StripsTo(Tail(raw), Tail(canonical))

\* the project of position p has an id and the user of p is not excluded
Counted(a, p) ==
    LET project == a.projects.value.items[p.i]
    IN  /\ DictGet(project, "id", JNull) # JNull
        /\ ~IsExcludedName(DictGet(UserAt(a, p), "username", JStr("")).s)

\* the positions of the jobs that count in the window lo..hi
QualifyingJobs(a, lo, hi) ==
    {p \in JobPaths(a) : Counted(a, p) /\ Qualifies(JobAt(a, p), lo, hi)}

\* the job at p belongs to the step canonical in the language named language
OfStep(a, p, canonical, language) ==
    /\ StripsTo(StepName(StepAt(a, p)), canonical)
    /\ TargetLangName(LangAt(a, p)) = language

\* C9: when aggregate_monthly_data returns, words_done of the entry of each
\* (canonical step, language) is the sum of the eleven buckets over the jobs
\* completed in start_month..end_month, both months included, of every user
\* that is not excluded in every project, for the steps whose raw name
\* canonicalizes to that step.
C9_SumLaw ==
    apc = "done" =>
        LET jobs == QualifyingJobs(api, start_month, end_month)
            table == data.workflow_by_language
        IN  /\ \A k \in DOMAIN table :
                  table[k].words_done =
                      WordsAt(api, {p \in jobs :
                                      OfStep(api, p, table[k].workflow_step, table[k].language)})
            /\ \A p \in jobs :
                  BucketSum(JobAt(api, p), ElevenBuckets) > 0 =>
                      \E k \in DOMAIN table :
                          OfStep(api, p, table[k].workflow_step, table[k].language)

\* a run over the year returned; one entry holds the words of jobs of two
\* projects, one completed in the first month and one in the last month of
\* the window
C9_Witness ==
    /\ apc = "done"
    /\ \E k \in DOMAIN data.workflow_by_language :
          \E p, q \in QualifyingJobs(api, start_month, end_month) :
             LET e == data.workflow_by_language[k]
             IN  /\ p.i # q.i
                 /\ OfStep(api, p, e.workflow_step, e.language)
                 /\ OfStep(api, q, e.workflow_step, e.language)
                 /\ JobAt(api, p).fields.lastCompletionDate = JNum(Day.jan1)
                 /\ JobAt(api, q).fields.lastCompletionDate = JNum(Day.oct31)
                 /\ BucketSum(JobAt(api, p), ElevenBuckets) > 0
                 /\ e.words_done
                        >= BucketSum(JobAt(api, p), ElevenBuckets)
                            + BucketSum(JobAt(api, q), ElevenBuckets)

\* the user statistics entry of the user and the language of position p
UserEntryOf(a, p) == UserLangKey(Username(UserAt(a, p)), TargetLangName(LangAt(a, p)))

\* C10: raw step names that differ only by digits are one step: the words of
\* their qualifying jobs for a language are in one workflow_by_language entry,
\* and per user in one step entry, keyed by the name without its digits; no
\* entry keyed by a name with a digit exists at any time.
C10_DigitsMerged ==
    data # None =>
        LET table == data.workflow_by_language
            users == data.user_statistics
            jobs == QualifyingJobs(api, start_month, end_month)
        IN  /\ \A k \in DOMAIN table :
                  /\ NoDigits(table[k].workflow_step)
                  /\ k = WorkflowKey(table[k].workflow_step, table[k].language)
            /\ \A k \in DOMAIN users :
                  \A canonical \in DOMAIN users[k].workflow_steps : NoDigits(canonical)
            /\ apc = "done" =>
                  \A p \in jobs :
                     BucketSum(JobAt(api, p), ElevenBuckets) > 0 =>
                        /\ \E k \in DOMAIN table :
                              /\ OfStep(api, p, table[k].workflow_step, table[k].language)
                              /\ table[k].words_done =
                                    WordsAt(api, {q \in jobs :
                                        OfStep(api, q, table[k].workflow_step,
                                               table[k].language)})
                              /\ \A other \in DOMAIN table :
                                    OfStep(api, p, table[other].workflow_step,
                                           table[other].language) => other = k
                        /\ UserEntryOf(api, p) \in DOMAIN users
                        /\ LET steps == users[UserEntryOf(api, p)].workflow_steps
                           IN  \E canonical \in DOMAIN steps :
                                  /\ StripsTo(StepName(StepAt(api, p)), canonical)
                                  /\ steps[canonical] =
                                        WordsAt(api, {q \in jobs :
                                            /\ UserEntryOf(api, q) = UserEntryOf(api, p)
                                            /\ StripsTo(StepName(StepAt(api, q)), canonical)})
                                  /\ \A other \in DOMAIN steps :
                                        StripsTo(StepName(StepAt(api, p)), other)
                                            => other = canonical

\* a run returned in which one entry holds the words of two steps of one
\* project whose raw names differ by their digits
C10_Witness ==
    /\ apc = "done"
    /\ \E k \in DOMAIN data.workflow_by_language :
          \E p, q \in QualifyingJobs(api, start_month, end_month) :
             LET e == data.workflow_by_language[k]
             IN  /\ p.i = q.i
                 /\ StepName(StepAt(api, p)) # StepName(StepAt(api, q))
                 /\ OfStep(api, p, e.workflow_step, e.language)
                 /\ OfStep(api, q, e.workflow_step, e.language)
                 /\ BucketSum(JobAt(api, p), ElevenBuckets) > 0
                 /\ BucketSum(JobAt(api, q), ElevenBuckets) > 0
                 /\ e.words_done
                        >= BucketSum(JobAt(api, p), ElevenBuckets)
                            + BucketSum(JobAt(api, q), ElevenBuckets)

(***************************************************************************)
(* Properties of the aggregation: projects that fail or have no work       *)
(***************************************************************************)
\* the positions of the listed projects
Listed(a) == IF a.projects.kind = "ok" /\ IsList(a.projects.value)
             THEN DOMAIN a.projects.value.items ELSE {}

\* the statistics fetch of the project at position i is made and raises: in
\* the request or in get_project_statistics itself
FetchFails(a, i) ==
    /\ DictGet(a.projects.value.items[i], "id", JNull) # JNull
    /\ a.statistics[i].kind = "raise"

\* the project at position i has a job that counts, with words, in lo..hi
HasQualifyingWork(a, i, lo, hi) ==
    \E p \in QualifyingJobs(a, lo, hi) :
        p.i = i /\ BucketSum(JobAt(a, p), ElevenBuckets) > 0

\* C11: when the statistics fetch of exactly one project raises, no error
\* leaves aggregate_monthly_data, the other projects are processed and
\* project_stats.total is the number of the other projects with qualifying work.
C11_OneFailureIsolated ==
    (apc \in {"done", "raised"}
        /\ Cardinality({i \in Listed(api) : FetchFails(api, i)}) = 1)
    => LET others == {i \in Listed(api) :
                        /\ ~FetchFails(api, i)
                        /\ HasQualifyingWork(api, i, start_month, end_month)}
       IN  /\ apc = "done"
           /\ agg_outcome = Ok(data)
           /\ data.project_stats.total = Cardinality(others)
           /\ \A i \in others :
                 \E n \in DOMAIN data.projects : data.projects[n].id = JNum(i)

\* the mocked get_project_statistics raised for the first project, the second
\* project had work in the window and is the one project counted
C11_Witness ==
    /\ apc = "done"
    /\ Len(projects.items) = 2
    /\ api.statistics[1] = MockRaises
    /\ HasQualifyingWork(api, 2, start_month, end_month)
    /\ data.project_stats.total = 1
    /\ data.projects[1].id = JNum(2)

\* the project at position idx is being processed
InProject == apc \in {"project", "steps"} /\ idx \in Listed(api)

\* C12: a project none of whose steps has a positive qualifying word total
\* contributes nothing: no step of its processing changes project_stats,
\* workflow_by_language, user_statistics or the projects list.
C12_NoWorkNoChange ==
    [][ (InProject /\ ~HasQualifyingWork(api, idx, start_month, end_month))
            => data' = data ]_vars

\* the first project had users, steps and jobs, none of them in the window;
\* it has been processed to its end and the tables are still empty
C12_Witness ==
    /\ apc = "project"
    /\ idx = 2
    /\ api.statistics[1] = Ok(JList(StatsNothingInYear))
    /\ stats_list = JList(StatsNothingInYear)
    /\ step > Len(StepVisits(stats_list))
    /\ data = EmptyData

\* C13: a second run of aggregate_monthly_data with the same window against
\* the same API data returns what the first run returned: nothing the first
\* run accumulated is carried over.
C13_SecondRunIdentical ==
    (apc \in {"done", "raised"} /\ returned # <<>>) => agg_outcome = returned[1]

\* both runs have ended, and the first had counted two projects
C13_Witness ==
    /\ apc = "done"
    /\ returned # <<>>
    /\ returned[1].kind = "ok"
    /\ Len(returned[1].value.projects) = 2
    /\ returned[1].value.workflow_by_language # <<>>
    /\ agg_outcome = returned[1]

(***************************************************************************)
(* Properties of the aggregation: a listing that fails                     *)
(***************************************************************************)
\* the listing request ultimately failed
ListingFailed == api # None /\ api.projects.kind = "raise"

\* C14: when retrieving the project list fails, aggregate_monthly_data does
\* not return a result: the failure propagates to its caller.
C14_ListingFailurePropagates ==
    (ListingFailed /\ apc \in {"done", "raised"})
    => (apc = "raised" /\ agg_outcome.kind = "raise")

(***************************************************************************)
(* Properties of generate_report                                           *)
(***************************************************************************)
\* all counts zero, empty tables
IsEmptyAggregate(d) ==
    /\ \A c \in {"total", "completed", "in_progress", "pending"} : d.project_stats[c] = 0
    /\ DOMAIN d.workflow_by_language = {}
    /\ DOMAIN d.user_statistics = {}
    /\ Len(d.projects) = 0

\* the aggregation call of the monthly (1) or year-to-date (2) window raised
WindowRaised(w) == Len(returned) >= w /\ returned[w].kind = "raise"

C16_ChecksAdvisory ==
    /\ [](all_passed # None => all_passed \in {Ok(TRUE), Ok(FALSE)})
    /\ [](gpc \in {"create", "created"} => Len(returned) = 2)
    /\ [][gpc = "start" => (gpc' = "monthly" /\ apc' = "start")]_vars
    /\ [][(gpc = "monthly" /\ gpc' # "monthly") => (gpc' = "ytd" /\ apc' = "start")]_vars

\* every check failed, the checks returned false, and both aggregations ran
C16_Witness ==
    /\ health.api.kind = "raise"
    /\ health.dir.kind = "raise"
    /\ health.disk.kind = "raise"
    /\ health.packages.kind = "raise"
    /\ all_passed = Ok(FALSE)
    /\ Len(returned) = 2
    /\ gpc = "created"

\* every request to the API fails: the one of the health checks, the listing,
\* and the statistics of any project
AllRequestsFail ==
    /\ health # None /\ health.api.kind = "raise"
    /\ api.projects.kind = "raise"
    /\ \A i \in DOMAIN api.statistics : api.statistics[i].kind = "raise"

\* C17: when every API request fails, generate_report does not end without a
\* report: it goes on until it calls create_excel_report, and calls it with an
\* empty monthly and an empty year-to-date aggregate.
C17_EmptyReportWhenApiDown ==
    AllRequestsFail =>
        /\ gpc # "failed"
        /\ gpc # "created" => ENABLED NextReport
        /\ gpc = "created" =>
              /\ IsEmptyAggregate(excel_args.monthly_data)
              /\ IsEmptyAggregate(excel_args.ytd_data)

\* create_excel_report was called although no request had succeeded
C17_Witness ==
    /\ AllRequestsFail
    /\ gpc = "created"
    /\ excel_args # None
    /\ IsEmptyAggregate(excel_args.monthly_data)
    /\ IsEmptyAggregate(excel_args.ytd_data)

(***************************************************************************)
(* Properties of the aggregation: the end-to-end scenario                  *)
(***************************************************************************)
\* the words the job carries in bucket name
Bucket(job_stat, name) == BucketSum(job_stat, {name})

\* a is one project with an id whose statistics hold one job only: a job
\* completed in lo..hi with leveragedWords 10, machineTranslationWords 5 and
\* nothing in the other buckets, in step "correct3", for language "fr_FR"
EndToEndScenario(a, lo, hi) ==
    LET only == [i |-> 1, l |-> 1, u |-> 1, s |-> 1]
        job == only @@ [j |-> 1]
    IN  /\ Listed(a) = {1}
        /\ Answered(a) = {1}
        /\ StepPaths(a) = {only}
        /\ JobPaths(a) = {job}
        /\ Counted(a, job)
        /\ Qualifies(JobAt(a, job), lo, hi)
        /\ DictGet(LangAt(a, job), "targetLanguage", JNull) = JStr("fr_FR")
        /\ DictGet(StepAt(a, job), "workflowStepName", JNull) = JStr("correct3")
        /\ \A name \in ElevenBuckets :
              Bucket(JobAt(a, job), name) =
                 (IF name = "leveragedWords" THEN 10
                  ELSE IF name = "machineTranslationWords" THEN 5 ELSE 0)

\* C18: for one project with a single job with leveragedWords 10,
\* machineTranslationWords 5 and all other buckets 0, completed inside the
\* window, in step "correct3" for language "fr_FR", aggregate_monthly_data
\* returns words_done 15 in the entry of ("correct", "French") and
\* project_stats.total 1.
C18_EndToEnd ==
    (apc = "done" /\ EndToEndScenario(api, start_month, end_month)) =>
        LET result == agg_outcome.value
            entries == {k \in DOMAIN result.workflow_by_language :
                          /\ result.workflow_by_language[k].workflow_step = "correct"
                          /\ result.workflow_by_language[k].language = "French"}
        IN  /\ result.project_stats.total = 1
            /\ Cardinality(entries) = 1
            /\ \A k \in entries : result.workflow_by_language[k].words_done = 15

\* the run over the month alone returned for that one project
C18_Witness ==
    /\ apc = "done"
    /\ start_month = end_month
    /\ EndToEndScenario(api, start_month, end_month)
    /\ agg_outcome.value.project_stats.total = 1
    /\ Len(agg_outcome.value.projects) = 1

(***************************************************************************)
(* Properties of the aggregation: statistics that cannot be reduced        *)
(***************************************************************************)
\* the statistics of the project at position i are fetched, and reducing them
\* over lo..hi raises at one of their steps or jobs
FailsPartWay(a, i, lo, hi) ==
    LET project == a.projects.value.items[i]
        got == CallGetProjectStatistics(a, DictGet(project, "id", JNull))
    IN  /\ HasId(project)
        /\ got.kind = "ok"
        /\ HasStatistics(got.value)
        /\ \E k \in DOMAIN StepVisits(got.value) :
              StepRaise(StepVisits(got.value)[k], lo, hi) # ""

\* the API a with no statistics for the projects at the positions in skipped
ApiSkipping(a, skipped) ==
    [a EXCEPT !.statistics =
        [i \in DOMAIN a.statistics |->
            IF i \in skipped THEN Ok(JList(<<>>)) ELSE a.statistics[i]]]

\* C19: when reducing the statistics of a project raises part-way, the error
\* is caught inside aggregate_monthly_data, the project is skipped entirely
\* and the other projects are processed: the call returns what it returns
\* when those projects have no statistics at all.
C19_BrokenProjectSkipped ==
    apc \in {"done", "raised"} =>
        LET failing == {i \in Listed(api) :
                          FailsPartWay(api, i, start_month, end_month)}
        IN  failing # {} =>
                /\ apc = "done"
                /\ agg_outcome = AggregateMonthlyData(ApiSkipping(api, failing),
                                                      start_month, end_month)

(***************************************************************************)
(* Properties of the aggregation: the projects tally                       *)
(***************************************************************************)
\* the projects of a that have a job that counts in lo..hi, with words, in
\* the step canonical for the language named language
ProjectsWithWork(a, lo, hi, canonical, language) ==
    {i \in Listed(a) :
        \E p \in QualifyingJobs(a, lo, hi) :
            /\ p.i = i
            /\ OfStep(a, p, canonical, language)
            /\ BucketSum(JobAt(a, p), ElevenBuckets) > 0}

\* C20: each project adds one to the projects tally of a (canonical step,
\* language) entry if it had qualifying work for that step in that language,
\* and nothing otherwise, however many jobs, users or numbered raw step names
\* contributed: the tally of an entry is the number of such projects.
C20_TallyCountsProjects ==
    apc = "done" =>
        \A k \in DOMAIN data.workflow_by_language :
            LET e == data.workflow_by_language[k]
            IN  e.projects =
                   Cardinality(ProjectsWithWork(api, start_month, end_month,
                                                e.workflow_step, e.language))

(***************************************************************************)
(* Properties of the retry wrapper: the waits                              *)
(***************************************************************************)
\* min(initial_delay * backoff_factor^(k-1), max_delay)
ExpectedWait(p, k) ==
    LET grown == p.initial_delay * (p.backoff_factor ^ (k - 1))
    IN  IF grown < p.max_delay THEN grown ELSE p.max_delay

\* C21: the k-th wait of the wrapper is min(initial_delay * backoff_factor^(k-1),
\* max_delay) and follows the k-th failed attempt, k < max_attempts; there is
\* no wait after the last attempt, after a success or after an error that is
\* raised at once; under the settings of _make_request (5, 2, 2, 60) a call
\* that fails on every attempt waits 2, 4, 8, 16, and no wait exceeds 60.
C21_BackoffSchedule ==
    /\ \A k \in DOMAIN sleeps :
          /\ sleeps[k] = ExpectedWait(policy, k)
          /\ k < policy.max_attempts
          /\ sleeps[k] <= policy.max_delay
    /\ pc = "call" => Len(sleeps) = calls
    /\ pc \in {"backoff", "exhausted", "returned", "raised"} => Len(sleeps) = calls - 1
    /\ (policy = [max_attempts |-> 5, initial_delay |-> 2, backoff_factor |-> 2,
                  max_delay |-> 60]
        /\ pc = "raised" /\ calls = 5 /\ IsTransientFailure(outcome))
          => sleeps = <<2, 4, 8, 16>>

\* a call of _make_request failed on all five attempts after waiting 2, 4, 8, 16
C21_Witness ==
    /\ policy = MakeRequestPolicy
    /\ pc = "raised"
    /\ calls = 5
    /\ sleeps = <<2, 4, 8, 16>>

(***************************************************************************)
(* Properties of the aggregation: the status buckets                       *)
(***************************************************************************)
\* the listed projects that are counted: those with work that qualifies
CountedProjects(a, lo, hi) == {i \in Listed(a) : HasQualifyingWork(a, i, lo, hi)}

\* the status field of the listed project i is one of names
StatusIn(a, i, names) ==
    LET fields == a.projects.value.items[i].fields
    IN  "status" \in DOMAIN fields /\ fields.status \in {JStr(n) : n \in names}

\* C22: every project counted in project_stats.total is counted in exactly one
\* bucket, chosen by its status: FINISHED in completed, IN_PROGRESS or STARTED
\* in in_progress, any other or missing status in pending.
C22_StatusBuckets ==
    apc = "done" =>
        LET counted == CountedProjects(api, start_month, end_month)
            finished == {i \in counted : StatusIn(api, i, {"FINISHED"})}
            running  == {i \in counted : StatusIn(api, i, {"IN_PROGRESS", "STARTED"})}
            stats == agg_outcome.value.project_stats
        IN  /\ stats.total = Cardinality(counted)
            /\ stats.completed = Cardinality(finished)
            /\ stats.in_progress = Cardinality(running)
            /\ stats.pending = Cardinality(counted \ (finished \cup running))

\* a run returned that counted a STARTED project and a project without status
C22_Witness ==
    /\ apc = "done"
    /\ agg_outcome.value.project_stats.in_progress = 1
    /\ agg_outcome.value.project_stats.pending = 1
    /\ \E i, j \in CountedProjects(api, start_month, end_month) :
          /\ StatusIn(api, i, {"STARTED"})
          /\ "status" \notin DOMAIN api.projects.value.items[j].fields

(***************************************************************************)
(* Properties of the aggregation: projects without an id                   *)
(***************************************************************************)
\* the id of the listed project i (null when it has none)
IdOf(a, i) == DictGet(a.projects.value.items[i], "id", JNull)

\* the ids of the projects of the returned summary
SummaryIds(result) == {result.projects[n].id : n \in DOMAIN result.projects}

\* C23: aggregate_monthly_data fetches the statistics of every listed project
\* whose id is not null, so that its qualifying work is in the result, and
\* skips without error exactly the projects whose id is missing or null.
C23_OnlyNullIdsSkipped ==
    /\ apc # "raised"
    /\ apc = "done" =>
          \A i \in Listed(api) :
             /\ (IdOf(api, i) # JNull
                 /\ HasQualifyingWork(api, i, start_month, end_month))
                   => IdOf(api, i) \in SummaryIds(agg_outcome.value)
             /\ IdOf(api, i) = JNull => JNull \notin SummaryIds(agg_outcome.value)

(***************************************************************************)
(* Properties of the aggregation: fields that are absent                   *)
(***************************************************************************)
\* the entries of the list d carries under key, none when it carries none
Entries(d, key) == IF key \in DOMAIN d.fields THEN d.fields[key].items ELSE <<>>

\* d's own value under key, if it has one
Kept(d, key) == IF key \in DOMAIN d.fields THEN (key :> d.fields[key]) ELSE <<>>

\* the job with every bucket written out (0 when absent) and its completion
\* date written out (null when absent)
FilledJob(job_stat) ==
    LET counts == IF "sourceStatistics" \in DOMAIN job_stat.fields
                  THEN job_stat.fields.sourceStatistics.fields ELSE <<>>
    IN  JDict([lastCompletionDate |->
                  IF "lastCompletionDate" \in DOMAIN job_stat.fields
                  THEN job_stat.fields.lastCompletionDate ELSE JNull,
               sourceStatistics |->
                  JDict([b \in ElevenBuckets |->
                            IF b \in DOMAIN counts THEN counts[b] ELSE JNum(0)])])

\* the step with its name (empty when absent) and its list of jobs (empty
\* when absent) written out
FilledStep(step_stat) ==
    JDict([workflowStepName |->
              IF "workflowStepName" \in DOMAIN step_stat.fields
              THEN step_stat.fields.workflowStepName ELSE JStr(""),
           jobsStatistics |->
              JList([j \in DOMAIN Entries(step_stat, "jobsStatistics") |->
                        FilledJob(Entries(step_stat, "jobsStatistics")[j])])])

FilledUser(user_stats) ==
    JDict(Kept(user_stats, "username") @@
          [stepsStatistics |->
              JList([k \in DOMAIN Entries(user_stats, "stepsStatistics") |->
                        FilledStep(Entries(user_stats, "stepsStatistics")[k])])])

FilledLang(lang_stats) ==
    JDict(Kept(lang_stats, "targetLanguage") @@
          [usersStatistics |->
              JList([u \in DOMAIN Entries(lang_stats, "usersStatistics") |->
                        FilledUser(Entries(lang_stats, "usersStatistics")[u])])])

\* the API a with every absent list, step name, date, source statistics and
\* bucket of its statistics written out as empty, null or zero
Filled(a) ==
    [a EXCEPT !.statistics =
        [i \in DOMAIN a.statistics |->
            IF i \in Answered(a)
            THEN Ok(JList([l \in DOMAIN a.statistics[i].value.items |->
                              FilledLang(a.statistics[i].value.items[l])]))
            ELSE a.statistics[i]]]

\* some entry of the statistics of a lacks a field
SomethingAbsent(a) == Filled(a) # a

ApiPasses(h) == h.api.kind = "ok"
\* (b) the output directory exists or can be created, and is writable
DirPasses(h) == h.dir.kind = "ok" /\ h.dir.value = "writable"
\* (d) the required packages can be imported
PackagesPass(h) == h.packages.kind = "ok"
\* (e) the report month and the start of the year-to-date range are not empty
DatesPass(today) == ReportMonth(today) # "" /\ YtdStartMonth(today) # ""

\* C25 as stated: the value _run_health_checks returns is the conjunction of
\* checks (a), (b), (d) and (e); the disk-space check (c) does not enter it.
C25_AndOfFourChecks ==
    all_passed # None =>
        all_passed = Ok(ApiPasses(health) /\ DirPasses(health) /\ PackagesPass(health)
                        /\ DatesPass(report_date))

\* C25, amended: the value _run_health_checks returns is the conjunction of
\* checks (a), (d) and (e); the output-directory check (b) and the disk-space
\* check (c) only warn and never change the result.
C25_AndOfCriticalChecks ==
    all_passed # None =>
        all_passed = Ok(ApiPasses(health) /\ PackagesPass(health)
                        /\ DatesPass(report_date))

\* the checks returned true although the output directory could not be used
\* and the disk space could not be read
C25_Witness ==
    /\ all_passed = Ok(TRUE)
    /\ ~DirPasses(health)
    /\ health.disk.kind = "raise"

(***************************************************************************)
(* Properties of the aggregation: the tables are sparse                    *)
(***************************************************************************)
\* the words of the jobs in jobs that qualify in lo..hi
RECURSIVE QualifyingWords(_, _, _)
QualifyingWords(jobs, lo, hi) ==
    IF jobs = <<>> THEN 0
    ELSE (IF Qualifies(Head(jobs), lo, hi) THEN BucketSum(Head(jobs), ElevenBuckets) ELSE 0)
         + QualifyingWords(Tail(jobs), lo, hi)

\* the loop over steps is at a step whose qualifying total is zero
AtEmptyStep ==
    /\ apc = "steps"
    /\ step \in DOMAIN StepVisits(stats_list)
    /\ QualifyingWords(Entries(StepVisits(stats_list)[step].step_stat, "jobsStatistics"),
                       start_month, end_month) = 0

\* every entry of the tables holds words
Sparse(d) ==
    /\ \A k \in DOMAIN d.workflow_by_language : d.workflow_by_language[k].words_done > 0
    /\ \A u \in DOMAIN d.user_statistics :
          \A s \in DOMAIN d.user_statistics[u].workflow_steps :
             d.user_statistics[u].workflow_steps[s] > 0

\* C26: at every point of an aggregation run every entry of
\* workflow_by_language has words_done > 0 and every step value of a
\* user_statistics entry is > 0; a step whose qualifying total is zero neither
\* creates nor touches an entry.
C26_TablesSparse ==
    /\ [](data # None => Sparse(data))
    /\ [][AtEmptyStep => /\ data'.workflow_by_language = data.workflow_by_language
                         /\ data'.user_statistics = data.user_statistics]_vars

\* the loop has passed a step without qualifying words of a project whose
\* earlier step had filled the tables
C26_Witness ==
    /\ apc = "steps"
    /\ step > 1
    /\ step - 1 \in DOMAIN StepVisits(stats_list)
    /\ QualifyingWords(Entries(StepVisits(stats_list)[step - 1].step_stat,
                               "jobsStatistics"),
                       start_month, end_month) = 0
    /\ data.workflow_by_language # <<>>
    /\ Sparse(data)

(***************************************************************************)
(* Properties of the aggregation: step names of digits only                *)
(***************************************************************************)
DigitsOnly(name) ==
    name # "" /\ \A n \in 1..Len(name) : CharAt(name, n) \in DigitChars

\* the jobs that count in lo..hi, with words, of steps named by digits only
DigitStepJobs(a, lo, hi) ==
    {p \in QualifyingJobs(a, lo, hi) :
        /\ DigitsOnly(StepName(StepAt(a, p)))
        /\ BucketSum(JobAt(a, p), ElevenBuckets) > 0}

\* C27: a raw step name of digits only is aggregated like any other step,
\* under the canonical step with the empty name: its qualifying words are in
\* the words_done of the entry of ("", its language), and its project is
\* counted as a project with qualifying work.
C27_DigitStepsAggregated ==
    apc = "done" =>
        \A p \in DigitStepJobs(api, start_month, end_month) :
            LET language == TargetLangName(LangAt(api, p))
                table == agg_outcome.value.workflow_by_language
                entries == {k \in DOMAIN table :
                              table[k].workflow_step = "" /\ table[k].language = language}
            IN  /\ Cardinality(entries) = 1
                /\ \A k \in entries :
                      table[k].words_done =
                         WordsAt(api, {q \in QualifyingJobs(api, start_month, end_month) :
                                          OfStep(api, q, "", language)})
                /\ IdOf(api, p.i) \in SummaryIds(agg_outcome.value)

\* a run returned whose only words are those of a step named "12"
C27_Witness ==
    /\ apc = "done"
    /\ DigitStepJobs(api, start_month, end_month) # {}
    /\ \A p \in QualifyingJobs(api, start_month, end_month) :
          BucketSum(JobAt(api, p), ElevenBuckets) > 0 =>
             p \in DigitStepJobs(api, start_month, end_month)
    /\ agg_outcome.value.project_stats.total = 1
    /\ \A k \in DOMAIN agg_outcome.value.workflow_by_language :
          agg_outcome.value.workflow_by_language[k].workflow_step = ""

(***************************************************************************)
(* Properties of the aggregation: the three views of a result              *)
(***************************************************************************)
\* the sum of f[x] over the x in keys
RECURSIVE SumOver(_, _)
SumOver(f, keys) ==
    IF keys = {} THEN 0
    ELSE LET x == CHOOSE y \in keys : TRUE
         IN  f[x] + SumOver(f, keys \ {x})

SumAll(f) == SumOver(f, DOMAIN f)

WordsByEntry(result) ==
    SumAll([k \in DOMAIN result.workflow_by_language |->
               result.workflow_by_language[k].words_done])

WordsByUser(result) ==
    SumAll([u \in DOMAIN result.user_statistics |->
               SumAll(result.user_statistics[u].workflow_steps)])

WordsByProject(result) ==
    SumAll([n \in DOMAIN result.projects |-> result.projects[n].total_words])

\* C28: in the result of aggregate_monthly_data the sum of words_done over
\* the workflow_by_language entries, the sum of the step values over the
\* user_statistics entries and the sum of total_words over the projects list
\* are equal.
C28_ViewsAgree ==
    apc = "done" =>
        /\ WordsByEntry(agg_outcome.value) = WordsByUser(agg_outcome.value)
        /\ WordsByEntry(agg_outcome.value) = WordsByProject(agg_outcome.value)

\* a result of two projects in which one user has words from two numbered
\* passes of a step
C28_Witness ==
    /\ apc = "done"
    /\ Len(agg_outcome.value.projects) = 2
    /\ Cardinality(DOMAIN agg_outcome.value.workflow_by_language) >= 2
    /\ WordsByEntry(agg_outcome.value) > 0
    /\ \E p, q \in QualifyingJobs(api, start_month, end_month) :
          /\ p.i = q.i /\ p.l = q.l /\ p.u = q.u /\ p.s # q.s
          /\ BucketSum(JobAt(api, p), ElevenBuckets) > 0
          /\ BucketSum(JobAt(api, q), ElevenBuckets) > 0
          /\ \E canonical \in {"translate"} :
                /\ StripsTo(StepName(StepAt(api, p)), canonical)
                /\ StripsTo(StepName(StepAt(api, q)), canonical)

(***************************************************************************)
(* Properties of the aggregation: the project counts                       *)
(***************************************************************************)
\* the listed projects the loop has dealt with or is dealing with
Reached == IF apc \in {"project", "steps"} THEN 1..Min(idx, Len(projects.items))
           ELSE Listed(api)

\* C29: after every processed project, project_stats.total equals
\* completed + in_progress + pending and equals the length of the projects
\* list, and each listed project is counted at most once: the entries of the
\* projects list are entries of distinct listed projects already reached.
C29_CountsConsistent ==
    (data # None /\ apc \in {"project", "steps", "done"}) =>
        LET stats == data.project_stats
        IN  /\ stats.total = stats.completed + stats.in_progress + stats.pending
            /\ stats.total = Len(data.projects)
            /\ \A m, n \in DOMAIN data.projects :
                  data.projects[m].id = data.projects[n].id => m = n
            /\ \A n \in DOMAIN data.projects :
                  \E i \in Reached : IdOf(api, i) = data.projects[n].id

\* the first of two projects has been processed and counted as pending, the
\* second is still to come
C29_Witness ==
    /\ apc = "project"
    /\ idx = 2
    /\ Len(projects.items) = 2
    /\ data.project_stats = [total |-> 1, completed |-> 0, in_progress |-> 0,
                             pending |-> 1]
    /\ Len(data.projects) = 1


(***************************************************************************)
(* The save of the workbook                                                *)
(***************************************************************************)
\* the locations in the order the claim gives them
SaveOrder == <<"primary", "desktop", "cwd", "temp">>

\* the attempt at the i-th location of the order ends in a saved file
Succeeds(i) == save_effects[SaveOrder[i]].result.kind = "ok"

\* the file name of the report
FileName == output_path[Len(output_path)]

\* the path of the report at the i-th location of the order
LocationPath(i) ==
    CASE i = 1 -> output_path
      [] i = 2 -> <<"home", "martin", "Desktop", FileName>>
      [] i = 3 -> <<"srv", "xtm", FileName>>
      [] i = 4 -> <<"tmp", FileName>>

\* the saves made when the first k locations have been tried, in order (a
\* location whose path cannot be computed is tried without a save)
RECURSIVE SavesUpTo(_)
SavesUpTo(k) ==
    IF k = 0 THEN <<>>
    ELSE SavesUpTo(k - 1)
         \o (IF save_effects[SaveOrder[k]].at = "save" THEN <<LocationPath(k)>> ELSE <<>>)

\* C30: create_excel_report tries the locations in the order primary path,
\* Desktop, current working directory, temp directory: at every moment the
\* saves made are those of the first k locations, in that order, and none of
\* them but the last has succeeded.  When it returns, it returns the path of
\* the first location whose save succeeds, and it has tried no later
\* location.  When it raises, all four locations have been tried and all
\* have failed.
C30_SaveFallbackOrder ==
    spc # "idle" =>
        /\ \E k \in 0..4 :
              /\ saves = SavesUpTo(k)
              /\ \A j \in 1..(k - 1) : ~Succeeds(j)
        /\ (report_path # None /\ report_path.kind = "ok") =>
              \E i \in 1..4 :
                 /\ Succeeds(i)
                 /\ \A j \in 1..(i - 1) : ~Succeeds(j)
                 /\ report_path.value = LocationPath(i)
                 /\ saves = SavesUpTo(i)
        /\ (report_path # None /\ report_path.kind = "raise") =>
              /\ \A i \in 1..4 : ~Succeeds(i)
              /\ saves = SavesUpTo(4)

\* the primary save was refused, the home directory could not be found, and
\* the report was saved to the current working directory and its path returned
C30_Witness ==
    /\ spc = "returned"
    /\ save_effects["primary"].result.kind = "raise"
    /\ save_effects["desktop"].at = "path"
    /\ save_effects["temp"].result.kind = "ok"
    /\ saves = <<output_path, <<"srv", "xtm", FileName>>>>
    /\ report_path = Ok(<<"srv", "xtm", FileName>>)

====
